---- MODULE Spec2Model ----
(***************************************************************************)
(* Model of the batch tools of cyverse/atmo-workshop-scripts.              *)
(*                                                                         *)
(*   Spec      main() of batch_launch_instance.py: authentication of every *)
(*             row, the launch pool, the collection of the launched        *)
(*             instances, the polling pool and the collection of the       *)
(*             pass/fail outcomes.                                         *)
(*   SpecPoll  Instance._wait_active() of one instance against a clock.    *)
(*   SpecHdr   the request helpers of APIClient run by concurrent workers. *)
(*   SpecRetry the retry_3 decorator and the lookups of Instance.launch(). *)
(*   SpecLaunch  the values Instance.launch() resolves and the request it  *)
(*             sends for one row.                                          *)
(*   SpecPool  the two pools of main() with more rows than workers.        *)
(*   SpecCsv   read_info_from_csv() of batch_launch_instance.py up to the  *)
(*             first request.                                              *)
(*   SpecAlloc update_user_AU() of batch_update_allocation.py over the     *)
(*             rows of its file.                                           *)
(*   SpecCleanup  main() of cleanup_account_resource.py over its accounts. *)
(*   SpecCleanupFair  the same with the wait loop of the cleanup polling  *)
(*             on as long as its requests are answered.                    *)
(***************************************************************************)
EXTENDS Integers, Sequences, FiniteSets, TLC

\* ------------------------------------------------------------------ bounds
\* rows of the CSV file
NRows == 3

\* ThreadPoolExecutor(max_workers=4)
MaxWorkers == 4

Rows == 1..NRows

\* ------------------------------------------------------------- state: main
VARIABLES
    pc,                 \* where main() is
    use_token,          \* args.token
    dont_wait,          \* args.dont_wait
    row_index,          \* row the authentication loop is at
    auth_failed,        \* row whose account_login() returned None, 0 when none
    api_clients,        \* rows with an authenticated APIClient, in order
    ltask,              \* state / result of each row's launch_instance future
    posted,             \* rows for which a create-instance request was issued
    lcollected,         \* launch futures consumed by as_completed
    launched_instances, \* rows whose Instance was appended, in collection order
    wtask,              \* state / result of each instance's wait_active future
    wlocal,             \* locals of each running _wait_active: status, acivity,
                        \* new_status bound (gone with the frame on return)
    wcollected          \* wait futures consumed by as_completed

mainVars == <<pc, use_token, dont_wait, row_index, auth_failed, api_clients, ltask,
              posted, lcollected, launched_instances, wtask, wlocal, wcollected>>

\* ------------------------------------------------- state: one _wait_active
VARIABLES
    ppc,                \* "loop" while _wait_active runs, else how it ended
    now,                \* the clock, time.mktime(time.localtime()), in seconds
    launch_time,        \* Instance.launch_time
    ploc,               \* locals: status, acivity, new_status bound
    last_poll,          \* what the latest self.status() gave, NoPoll before it
    poll_time           \* curr_time read after the latest poll

pollVars == <<ppc, now, launch_time, ploc, last_poll, poll_time>>

\* --------------------------------------------- state: the request helpers
VARIABLES
    token,              \* APIClient.token of each worker's client, 0 when empty
    get_default,        \* Authorization entry of the dict that is the default of
                        \* additional_header in _atmo_get_req, 0 when absent
    post_default,       \* the same entry of the default dict of _atmo_post_req
    delete_default,     \* the same entry of the default dict of _atmo_delete_req
    hpc,                \* where each worker is in its request
    hlocal,             \* Authorization entry of the headers dict a worker's
                        \* launch_instance_off_image call made for its POST
    sent                \* the latest request of each worker as it went out

hdrVars == <<token, get_default, post_default, delete_default, hpc, hlocal, sent>>

\* ------------------------------------- state: Instance.launch of one row
VARIABLES
    rpc,                \* what Instance.launch() does next, or how it ended
    rstep,              \* the lookup launch() is at
    has_name,           \* whether the row gave an instance name
    attempts,           \* outcomes of the attempts made so far by the innermost
                        \* retry_3 wrapper that is running
    outer_attempts,     \* the same for list_machines_of_image_version
    pending_exc,        \* the exception on its way up, "none" when there is none
    notfound,           \* lookups of this step that found no matching entry
    last_call,          \* the latest call of a decorated function that ended
    requested,          \* the steps a request went out for, in order of their
                        \* first request
    image_gets          \* GETs of /api/v2/images sent for the machine step

retryVars == <<rpc, rstep, has_name, attempts, outer_attempts, pending_exc,
               notfound, last_call, requested, image_gets>>

\* ------------------- state: the values Instance.launch resolves for one row
VARIABLES
    lpc,                \* the lookup launch() is at, or how it ended
    lrow,               \* the dict parse_row made of the row
    instance,           \* the fields of the Instance object
    llocal,             \* locals of launch() and of the lookup it is in
    lm_attempt,         \* attempt list_machines_of_image_version is at, from 0
    last_lookup,        \* the search of the list fetched last and what it
                        \* gave, NoLookup once another request went out
    create_data         \* the data of the create-instance request, once sent

launchVars == <<lpc, lrow, instance, llocal, lm_attempt, last_lookup, create_data>>

\* ------------------------- state: the two pools of main, tasks as black boxes
VARIABLES
    pool_pc,            \* the phase main() is in
    pool_dont_wait,     \* args.dont_wait
    pool_next,          \* the row the submit loop of phase 2 is at
    pool_nsubmit,       \* launch futures submitted for each row
    pool_queue,         \* work queue of the executor: submitted, not started
    pool_launch,        \* state / result of each row's launch_instance future
    pool_wait           \* state / result of each instance's wait_active future

poolVars == <<pool_pc, pool_dont_wait, pool_next, pool_nsubmit, pool_queue, pool_launch, pool_wait>>

\* --------------------------------- state: read_info_from_csv of the launch tool
VARIABLES
    cpc,                \* where the tool is: reading the file, in main, ended
    csv_token,          \* use_token, args.token after parse_args
    all_fields,         \* the header row, <<>> before it is read
    field_index,        \* required_index and optional_index of find_fields
    csv_rows,           \* the data rows read so far
    instance_list,      \* the dicts parse_row made
    csv_exit,           \* how the process ended: "none" while it runs
    net_calls           \* requests sent to the platform

csvVars == <<cpc, csv_token, all_fields, field_index, csv_rows, instance_list,
             csv_exit, net_calls>>

\* ------------------------------------- state: batch_update_allocation.py
VARIABLES
    apc,                \* where main() is: in its loop, done
    force_set,          \* args.force_set
    alloc_row,          \* the row the loop of main is at
    alloc_srcs,         \* the accounts that have an allocation source
    au_start,           \* the AU of each account when the run began
    compute_allowed,    \* the AU of each account's first allocation source,
                        \* as the platform holds it
    alloc_last,         \* what update_user_AU did for the latest row
    jetstream,          \* args.jetstream
    alloc_host          \* the host the requests of the latest row went to

allocVars == <<apc, force_set, alloc_row, alloc_srcs, au_start, compute_allowed,
               alloc_last, jetstream, alloc_host>>

\* ------------------------------------ state: cleanup_account_resource.py
VARIABLES
    kpc,                \* the step main() is at for the account, or how the
                        \* run ended
    acct,               \* the account the loop of main is at
    finished,           \* the accounts whose cleanup ran to its end
    items,              \* the list the current for loop runs over
    item,               \* the position of that loop in it
    srv_vols,           \* the account's volumes as the platform holds them
    deattached,         \* the list deattached of main
    pass_left,          \* what is left of list(deattached) in the wait loop
    default_project,    \* position of the default project, 0 when created
    projects_left,      \* the projects the platform holds for the account
    listed,             \* how many items each listing of the account returned
    rerun,              \* whether the row names the account of the row
                        \* before, and the projects that cleanup left
    raised,             \* the row whose cleanup raised, 0 when none
    klog                \* the requests sent for the account that change
                        \* something, in order

cleanupVars == <<kpc, acct, finished, items, item, srv_vols, deattached,
                 pass_left, default_project, projects_left, listed, rerun,
                 raised, klog>>

vars == <<mainVars, pollVars, hdrVars, retryVars, launchVars, poolVars, csvVars,
          allocVars, cleanupVars>>

\* what the actions of one specification leave alone
notMainVars ==
    <<pollVars, hdrVars, retryVars, launchVars, poolVars, csvVars,
      allocVars, cleanupVars>>
notPollVars ==
    <<mainVars, hdrVars, retryVars, launchVars, poolVars, csvVars,
      allocVars, cleanupVars>>
notHdrVars ==
    <<mainVars, pollVars, retryVars, launchVars, poolVars, csvVars,
      allocVars, cleanupVars>>
notRetryVars ==
    <<mainVars, pollVars, hdrVars, launchVars, poolVars, csvVars,
      allocVars, cleanupVars>>
notLaunchVars ==
    <<mainVars, pollVars, hdrVars, retryVars, poolVars, csvVars,
      allocVars, cleanupVars>>
notCsvVars ==
    <<mainVars, pollVars, hdrVars, retryVars, launchVars, poolVars,
      allocVars, cleanupVars>>
notAllocVars ==
    <<mainVars, pollVars, hdrVars, retryVars, launchVars, poolVars, csvVars,
      cleanupVars>>
notCleanupVars ==
    <<mainVars, pollVars, hdrVars, retryVars, launchVars, poolVars, csvVars,
      allocVars>>
notPoolVars ==
    <<mainVars, pollVars, hdrVars, retryVars, launchVars, csvVars,
      allocVars, cleanupVars>>

Range(s) == {s[i] : i \in 1..Len(s)}

\* ------------------------------------------------------- _wait_active body
\* what one status poll can give: a (status, activity) pair, or an exception
\* out of Instance.status() after instance_status_v1 used up its retries
PollResults == {<<"build", "networking">>, <<"active", "deploying">>,
                <<"active", "">>, <<"error", "">>, <<"deploy_error", "">>}
PollException == <<"exception", "">>
NoPoll == <<"none", "">>

\* locals of _wait_active before the first iteration (lines 579-580);
\* bound tells whether the name new_status has been assigned
WaitLocalsInit == [status |-> "", acivity |-> "", bound |-> FALSE]

\* One iteration of the while loop of _wait_active (lines 581-604).
\* loc: the locals, res: what self.status() gave, timed_out: the value of
\* curr_time - self.launch_time > 1800 read after the poll.
\* Gives the locals after the iteration and how the iteration ends:
\* "continue" (loop again), "True", "False" (return), "raise".
\* lines 598-599 alone: only "error" ends the polling
TerminalFailure_ErrorOnly(status) == status = "error"

\* lines 598-601: the statuses that make _wait_active return False
TerminalFailure(status) == status = "error" \/ status = "deploy_error"

WaitActiveIter(loc, res, timed_out) ==
    IF res = PollException /\ ~loc.bound
    THEN \* line 588 reads new_status, which was never assigned
         [loc |-> loc, ret |-> "raise"]
    ELSE LET new_status == IF res = PollException
                           THEN <<loc.status, loc.acivity>>
                           ELSE res
             nloc == [status |-> new_status[1], acivity |-> new_status[2],
                      bound |-> TRUE]
         IN  IF timed_out THEN [loc |-> nloc, ret |-> "False"]
             ELSE IF TerminalFailure(nloc.status)
                  THEN [loc |-> nloc, ret |-> "False"]
             ELSE IF nloc.status = "active" /\ nloc.acivity = ""
                  THEN [loc |-> nloc, ret |-> "True"]
                  ELSE [loc |-> nloc, ret |-> "continue"]

\* ----------------------------------------------------------- main: phase 1
\* outcomes of account_login(row, row_index), lines 853-882
LoginOutcomes(token_mode) ==
    IF token_mode THEN {"ok", "identity_failed"}
                  ELSE {"ok", "login_failed", "identity_failed"}

\* account_login returns the client, or None on any exception
account_login(outcome) == IF outcome = "ok" THEN "api_client" ELSE "None"

\* mutant: a row that fails to authenticate is skipped and the loop goes on
AfterLogin_SkipRow(client) == "auth"

\* main, lines 649-650: what a None client does to the run
AfterLogin(client) == IF client = "None" THEN "returned" ELSE "auth"

InitMain ==
    /\ pc = "auth"
    /\ use_token \in BOOLEAN
    /\ dont_wait \in BOOLEAN
    /\ row_index = 1
    /\ auth_failed = 0
    /\ api_clients = <<>>
    /\ ltask = [r \in Rows |-> "none"]
    /\ posted = {}
    /\ lcollected = {}
    /\ launched_instances = <<>>
    /\ wtask = [r \in Rows |-> "none"]
    /\ wlocal = [r \in Rows |-> WaitLocalsInit]
    /\ wcollected = {}

\* one iteration of the credential loop, lines 646-651
AccountLogin ==
    /\ pc = "auth"
    /\ row_index <= NRows
    /\ \E outcome \in LoginOutcomes(use_token) :
        LET client == account_login(outcome) IN
        /\ pc' = AfterLogin(client)
        /\ auth_failed' = IF client = "None" THEN row_index ELSE auth_failed
        /\ api_clients' = IF client = "None" THEN api_clients
                          ELSE Append(api_clients, row_index)
        /\ row_index' = IF AfterLogin(client) = "returned" THEN row_index
                        ELSE row_index + 1
    /\ UNCHANGED <<use_token, dont_wait, ltask, posted, lcollected,
                   launched_instances, wtask, wlocal, wcollected,
                   notMainVars>>

\* the rows of a list of futures that are still to be submitted
Unsubmitted(task, rows) == {r \in rows : task[r] = "none"}

\* line 655: one executor.submit of the list comprehension, for the next row
\* of instance_list; the workers of the pool run while main goes on
\* submitting
SubmitLaunch ==
    /\ \/ pc = "auth" /\ row_index > NRows
       \/ pc = "launch"
    /\ Unsubmitted(ltask, Rows) # {}
    /\ pc' = "launch"
    /\ LET r == CHOOSE q \in Unsubmitted(ltask, Rows) :
                    \A o \in Unsubmitted(ltask, Rows) : q <= o
       IN  ltask' = [ltask EXCEPT ![r] = "queued"]
    /\ UNCHANGED <<use_token, dont_wait, row_index, auth_failed, api_clients, posted,
                   lcollected, launched_instances, wtask, wlocal, wcollected,
                   notMainVars>>

\* ----------------------------------------------------------- main: phase 2
Running(task) == {r \in Rows : task[r] = "running"}

\* mutant: a thread for every task
WorkerFree_Unbounded(busy) == TRUE

\* ThreadPoolExecutor(max_workers=4), lines 654 and 665: a worker is to be
\* had while fewer than max_workers tasks run
WorkerFree(busy) == busy < MaxWorkers

\* a pool worker takes the oldest queued future when fewer than
\* max_workers are busy
LaunchStart(r) ==
    /\ ltask[r] = "queued"
    /\ \A q \in Rows : q < r => ltask[q] # "queued"
    /\ WorkerFree(Cardinality(Running(ltask)))
    /\ ltask' = [ltask EXCEPT ![r] = "running"]
    /\ UNCHANGED <<pc, use_token, dont_wait, row_index, auth_failed, api_clients,
                   posted, lcollected, launched_instances, wtask, wlocal, wcollected,
                   notMainVars>>

\* where launch_instance() can fail, lines 893-894: the Instance constructor
\* (account_username), each lookup of Instance.launch, the create request,
\* the fields of its response
FailPoints == {"none", "ctor", "size", "alloc_src", "project", "identity",
               "machine", "name", "post", "response"}

\* launch_instance_off_image is reached (line 556) once every lookup passed
PostIssued(fp) == fp \in {"none", "post", "response"}

\* mutant: the exception of a failing row leaves launch_instance
launch_instance_NoCatch(fp) == IF fp = "none" THEN "instance" ELSE "raise"

\* launch_instance, lines 892-901: the Instance, or None on any exception
launch_instance(fp) == IF fp = "none" THEN "instance" ELSE "None"

\* line 556: every lookup of the row passed and its create-instance request
\* goes out, while the future is still running
LaunchPost(r) ==
    /\ ltask[r] = "running"
    /\ r \notin posted
    /\ posted' = posted \cup {r}
    /\ UNCHANGED <<pc, use_token, dont_wait, row_index, auth_failed, api_clients,
                   ltask, lcollected, launched_instances, wtask, wlocal,
                   wcollected, notMainVars>>

\* launch_instance returns: before the create-instance request when the
\* constructor or a lookup failed, after it otherwise
LaunchReturn(r) ==
    /\ ltask[r] = "running"
    /\ \E result \in {launch_instance(fp) :
                         fp \in {f \in FailPoints : PostIssued(f) <=> r \in posted}} :
        ltask' = [ltask EXCEPT ![r] = result]
    /\ UNCHANGED <<pc, use_token, dont_wait, row_index, auth_failed, api_clients,
                   posted, lcollected, launched_instances, wtask, wlocal,
                   wcollected, notMainVars>>

Finished(task) == {r \in Rows : task[r] \notin {"none", "queued", "running"}}

\* lines 656-659: as_completed hands over a finished future, result() gives
\* its value or raises what the task raised
CollectLaunch(r) ==
    /\ pc = "launch"
    /\ Unsubmitted(ltask, Rows) = {}
    /\ r \in Finished(ltask) \ lcollected
    /\ lcollected' = lcollected \cup {r}
    /\ pc' = IF ltask[r] = "raise" THEN "crashed" ELSE pc
    /\ launched_instances' = IF ltask[r] = "instance"
                             THEN Append(launched_instances, r)
                             ELSE launched_instances
    /\ UNCHANGED <<use_token, dont_wait, row_index, auth_failed, api_clients, ltask,
                   posted, wtask, wlocal, wcollected,
                   notMainVars>>

\* mutant: main goes on at the first result
LaunchesOver_FirstResult == lcollected # {}

\* lines 656-659: the as_completed loop has handed over every launch future
\* and the with block of the pool is left
LaunchesOver == lcollected = Rows

\* mutant: the flag is not looked at
SkipWait_Never(flag) == FALSE

\* lines 662-663: "if args.dont_wait: return"
SkipWait(flag) == flag

\* lines 661-663: the summary, then the polling pool unless --dont-wait
LaunchedSummary ==
    /\ pc = "launch"
    /\ Unsubmitted(ltask, Rows) = {}
    /\ LaunchesOver
    /\ pc' = IF SkipWait(dont_wait) THEN "done" ELSE "wait"
    /\ UNCHANGED <<use_token, dont_wait, row_index, auth_failed, api_clients, ltask,
                   posted, lcollected, launched_instances, wtask, wlocal,
                   wcollected, notMainVars>>

\* ----------------------------------------------------------- main: phase 3
Position(r) == CHOOSE i \in 1..Len(launched_instances) : launched_instances[i] = r

\* line 666: one executor.submit of the list comprehension, for the next of
\* launched_instances; the workers of the pool run while main goes on
\* submitting
SubmitWait ==
    /\ pc = "wait"
    /\ Unsubmitted(wtask, Range(launched_instances)) # {}
    /\ LET r == CHOOSE q \in Unsubmitted(wtask, Range(launched_instances)) :
                    \A o \in Unsubmitted(wtask, Range(launched_instances)) :
                        Position(q) <= Position(o)
       IN  wtask' = [wtask EXCEPT ![r] = "queued"]
    /\ UNCHANGED <<pc, use_token, dont_wait, row_index, auth_failed, api_clients,
                   ltask, posted, lcollected, launched_instances, wlocal,
                   wcollected, notMainVars>>

WaitStart(r) ==
    /\ wtask[r] = "queued"
    /\ \A q \in Rows : (wtask[q] = "queued" /\ q # r) => Position(r) < Position(q)
    /\ WorkerFree(Cardinality(Running(wtask)))
    /\ wtask' = [wtask EXCEPT ![r] = "running"]
    /\ UNCHANGED <<pc, use_token, dont_wait, row_index, auth_failed, api_clients, ltask,
                   posted, lcollected, launched_instances, wlocal, wcollected,
                   notMainVars>>

\* the frame of _wait_active after the body of an iteration: its locals
\* while the task sleeps (line 603), none once it returned or raised
AfterIter(it) ==
    [loc |-> IF it.ret \in {"continue", "True"} THEN it.loc ELSE WaitLocalsInit,
     ret |-> IF it.ret \in {"continue", "True"} THEN "running" ELSE it.ret]

\* the loop test of line 581 let the loop go on: the body of one iteration
\* of _wait_active of instance r, lines 582-603, on any answer of the status
\* poll; it returns False, raises, or sleeps with the answer in its locals.
\* The clock is SpecPoll's subject, here the timeout test can go either way
WaitIter(r) ==
    /\ wtask[r] = "running"
    /\ ~(wlocal[r].status = "active" /\ wlocal[r].acivity = "")
    /\ \E it \in {AfterIter(WaitActiveIter(wlocal[r], res, timed_out)) :
                      res \in PollResults \cup {PollException},
                      timed_out \in BOOLEAN} :
        /\ wlocal' = [wlocal EXCEPT ![r] = it.loc]
        /\ wtask' = [wtask EXCEPT ![r] = it.ret]
    /\ UNCHANGED <<pc, use_token, dont_wait, row_index, auth_failed, api_clients, ltask,
                   posted, lcollected, launched_instances, wcollected,
                   notMainVars>>

\* lines 581 and 604: after the sleep the loop test finds the instance
\* active with no activity, the loop ends and _wait_active returns True
WaitReturn(r) ==
    /\ wtask[r] = "running"
    /\ wlocal[r].status = "active" /\ wlocal[r].acivity = ""
    /\ wtask' = [wtask EXCEPT ![r] = "True"]
    /\ wlocal' = [wlocal EXCEPT ![r] = WaitLocalsInit]
    /\ UNCHANGED <<pc, use_token, dont_wait, row_index, auth_failed, api_clients, ltask,
                   posted, lcollected, launched_instances, wcollected,
                   notMainVars>>

\* lines 667-670: result() of a finished wait_active future
CollectWait(r) ==
    /\ pc = "wait"
    /\ Unsubmitted(wtask, Range(launched_instances)) = {}
    /\ r \in Finished(wtask) \ wcollected
    /\ pc' = IF wtask[r] = "raise" THEN "crashed" ELSE pc
    /\ wcollected' = IF wtask[r] = "raise" THEN wcollected ELSE wcollected \cup {r}
    /\ UNCHANGED <<use_token, dont_wait, row_index, auth_failed, api_clients, ltask,
                   posted, lcollected, launched_instances, wtask, wlocal,
                   notMainVars>>

MainDone ==
    /\ pc = "wait"
    /\ wcollected = Range(launched_instances)
    /\ pc' = "done"
    /\ UNCHANGED <<use_token, dont_wait, row_index, auth_failed, api_clients, ltask,
                   posted, lcollected, launched_instances, wtask, wlocal, wcollected,
                   notMainVars>>

\* the variables of main while another specification runs
InitMainIdle ==
    /\ pc = "idle"
    /\ use_token = FALSE
    /\ dont_wait = FALSE
    /\ row_index = 1
    /\ auth_failed = 0
    /\ api_clients = <<>>
    /\ ltask = [r \in Rows |-> "none"]
    /\ posted = {}
    /\ lcollected = {}
    /\ launched_instances = <<>>
    /\ wtask = [r \in Rows |-> "none"]
    /\ wlocal = [r \in Rows |-> WaitLocalsInit]
    /\ wcollected = {}

\* ====================================================== one _wait_active
\* "# timeout after 30min", line 594
Timeout == 1800

\* time.sleep(5), line 603
PollInterval == 5

\* seconds one self.status() call can take (its HTTP request and retries)
MaxPollTime == 2

\* the launch time, and how long after it the polling task gets a worker:
\* at once, shortly before the timeout, or after it (the launches of the
\* other rows and the queue of the polling pool come in between)
LaunchTimes == {0, 100}
StartDelays == {0, Timeout - 1, Timeout + 1}

\* the other variables while SpecPoll is not the specification
PollIdle ==
    /\ ppc = "idle"
    /\ now = 0
    /\ launch_time = 0
    /\ ploc = WaitLocalsInit
    /\ last_poll = NoPoll
    /\ poll_time = 0

\* Instance.launch set launch_time (line 560); _wait_active is entered
InitPoll ==
    /\ ppc = "loop"
    /\ launch_time \in LaunchTimes
    /\ now \in {launch_time + d : d \in StartDelays}
    /\ ploc = WaitLocalsInit
    /\ last_poll = NoPoll
    /\ poll_time = 0

\* line 594: curr_time - self.launch_time > 1800
TimedOut(curr_time, launched_at) == curr_time - launched_at > Timeout

\* one iteration of the loop of _wait_active, lines 581-603: the poll takes
\* d seconds and gives res, the clock is read, and the loop sleeps unless
\* the iteration returned or raised
WaitActiveStep ==
    /\ ppc = "loop"
    /\ \E res \in PollResults \cup {PollException}, d \in 0..MaxPollTime :
        LET curr_time == now + d
            it == WaitActiveIter(ploc, res, TimedOut(curr_time, launch_time))
        IN
        /\ ploc' = it.loc
        /\ ppc' = IF it.ret = "continue" THEN "loop" ELSE it.ret
        /\ last_poll' = res
        /\ poll_time' = curr_time
        /\ now' = IF it.ret \in {"continue", "True"} THEN curr_time + PollInterval
                  ELSE curr_time
    /\ UNCHANGED <<launch_time, notPollVars>>

NextPoll == WaitActiveStep

\* ================================================== the request helpers
\* workers of the pool that run at the same time, each for its own row
NWorkers == 2

Workers == 1..NWorkers

\* tokens the sessions hold; 0 stands for an empty or unset token
Tokens == 0..NWorkers

HdrIdle ==
    /\ token = <<>>
    /\ get_default = 0
    /\ post_default = 0
    /\ delete_default = 0
    /\ hpc = <<>>
    /\ hlocal = <<>>
    /\ sent = <<>>

NoRequest == [kind |-> "none", auth |-> 0]

InitHdr ==
    /\ token \in [Workers -> Tokens]
    /\ get_default = 0
    /\ post_default = 0
    /\ delete_default = 0
    /\ hpc = [w \in Workers |-> "idle"]
    /\ hlocal = [w \in Workers |-> 0]
    /\ sent = [w \in Workers |-> NoRequest]

\* lines 424-425, 454-455, 486-487: the Authorization entry of the headers
\* dict after "if self.token: headers[...] = ..." ran on a dict that held
\* entry
SetAuthorization(entry, tok) == IF tok # 0 THEN tok ELSE entry

\* _atmo_get_req, lines 421-425, called with no additional_header: headers
\* is the one default dict of the function, whoever the caller is
GetPrepare(w) ==
    /\ hpc[w] = "idle"
    /\ get_default' = SetAuthorization(get_default, token[w])
    /\ hpc' = [hpc EXCEPT ![w] = "get"]
    /\ UNCHANGED <<token, post_default, delete_default, hlocal, sent, notHdrVars>>

\* _atmo_get_req, line 431: requests.get reads the dict as it is now
GetSend(w) ==
    /\ hpc[w] = "get"
    /\ sent' = [sent EXCEPT ![w] = [kind |-> "get", auth |-> get_default]]
    /\ hpc' = [hpc EXCEPT ![w] = "idle"]
    /\ UNCHANGED <<token, get_default, post_default, delete_default, hlocal,
                   notHdrVars>>

\* _atmo_post_req, lines 450-455. passed: the caller gave additional_header,
\* as launch_instance_off_image does with the dict it just made (lines
\* 291-305); otherwise, as from instance_action (line 379), headers is the
\* one default dict of the function
PostPrepare(w, passed) ==
    /\ hpc[w] = "idle"
    /\ hlocal' = IF passed
                 THEN [hlocal EXCEPT ![w] = SetAuthorization(0, token[w])]
                 ELSE hlocal
    /\ post_default' = IF passed THEN post_default
                       ELSE SetAuthorization(post_default, token[w])
    /\ hpc' = [hpc EXCEPT ![w] = IF passed THEN "post" ELSE "post_default"]
    /\ UNCHANGED <<token, get_default, delete_default, sent, notHdrVars>>

\* _atmo_post_req, lines 458-461: requests.post reads the dict as it is now;
\* the dict of the caller is dropped when the call returns
PostSend(w) ==
    /\ hpc[w] \in {"post", "post_default"}
    /\ sent' = [sent EXCEPT ![w] =
                    [kind |-> "post",
                     auth |-> IF hpc[w] = "post" THEN hlocal[w] ELSE post_default]]
    /\ hlocal' = [hlocal EXCEPT ![w] = 0]
    /\ hpc' = [hpc EXCEPT ![w] = "idle"]
    /\ UNCHANGED <<token, get_default, post_default, delete_default, notHdrVars>>

\* _atmo_delete_req, lines 482-487, called by delete_instance with no
\* additional_header (line 404): headers is the default dict of the function
DeletePrepare(w) ==
    /\ hpc[w] = "idle"
    /\ delete_default' = SetAuthorization(delete_default, token[w])
    /\ hpc' = [hpc EXCEPT ![w] = "delete"]
    /\ UNCHANGED <<token, get_default, post_default, hlocal, sent, notHdrVars>>

\* _atmo_delete_req, line 490
DeleteSend(w) ==
    /\ hpc[w] = "delete"
    /\ sent' = [sent EXCEPT ![w] = [kind |-> "delete", auth |-> delete_default]]
    /\ hpc' = [hpc EXCEPT ![w] = "idle"]
    /\ UNCHANGED <<token, get_default, post_default, delete_default, hlocal,
                   notHdrVars>>

NextHdr ==
    \/ \E w \in Workers : GetPrepare(w)
    \/ \E w \in Workers : GetSend(w)
    \/ \E w \in Workers, passed \in BOOLEAN : PostPrepare(w, passed)
    \/ \E w \in Workers : PostSend(w)
    \/ \E w \in Workers : DeletePrepare(w)
    \/ \E w \in Workers : DeleteSend(w)


\* ============================== retry_3 and the lookups of Instance.launch
\* "for attempt in range(3)", line 38
Attempts == 3

\* what one run of a wrapped function body gives: its value, or an exception
Exceptions == {"HTTPError", "IncompleteResponse", "ValueError"}

\* "except exception as e" (line 41): IncompleteResponse is a ValueError,
\* HTTPError is not one, all are Exceptions
Matches(exc, class) ==
    \/ class = "Exception"
    \/ exc = class
    \/ class = "ValueError" /\ exc = "IncompleteResponse"

\* mutant: one attempt too many
retry_3_OffByOne(attempt, out, class) ==
    IF out = "ok" THEN "return"
    ELSE IF ~Matches(out, class) THEN "propagate"
    ELSE IF attempt < Attempts THEN "retry"
    ELSE "raise"

\* retry_3.inner, lines 36-47, at the attempt numbered attempt (from 0) whose
\* run of func gave out: return its value, let a foreign exception through,
\* go round again, or leave the loop and raise error
retry_3(attempt, out, class) ==
    IF out = "ok" THEN "return"
    ELSE IF ~Matches(out, class) THEN "propagate"
    ELSE IF attempt < Attempts - 1 THEN "retry"
    ELSE "raise"

\* line 42: error is the exception of the latest attempt
RaisedError(outs) == outs[Len(outs)]

\* mutant: the identity is looked up before the project
Steps_IdentityFirst ==
    <<"size", "alloc_src", "identity", "project", "machine", "name", "post">>

\* the lookups of Instance.launch in their order (lines 536-556)
Steps == <<"size", "alloc_src", "project", "identity", "machine", "name", "post">>

\* the decorated function behind each step, and the class it retries on
ListFn(step) ==
    CASE step = "size" -> "instance_size_list"
      [] step = "alloc_src" -> "allocation_source_list"
      [] step = "project" -> "list_project_of_user"
      [] step = "identity" -> "identity_list"
      [] step = "machine" -> "image_list"
      [] step = "name" -> "image_list"
      [] step = "post" -> "launch_instance_off_image"

RetryClass(fn) == IF fn = "launch_instance_off_image" THEN "HTTPError" ELSE "Exception"

\* the exception of a lookup that finds nothing: lines 118, 156, 184, 209,
\* 539 raise ValueError
NotFoundError == "ValueError"

\* line 238: no version of that name
NoVersionError == "IncompleteResponse"

NoCall == [fn |-> "none", class |-> "none", outs |-> <<>>, result |-> "none",
           exc |-> "none"]

Ended(fn, outs, result) ==
    [fn |-> fn, class |-> RetryClass(fn), outs |-> outs, result |-> result,
     exc |-> IF result = "raise" THEN RaisedError(outs) ELSE "none"]

RetryIdle ==
    /\ rpc = "idle"
    /\ rstep = 1
    /\ has_name = FALSE
    /\ attempts = <<>>
    /\ outer_attempts = <<>>
    /\ pending_exc = "none"
    /\ notfound = 0
    /\ last_call = NoCall
    /\ requested = <<>>
    /\ image_gets = 0

\* Instance.launch() is entered, line 535
InitRetry ==
    /\ rpc = "fetch"
    /\ rstep = 1
    /\ has_name \in BOOLEAN
    /\ attempts = <<>>
    /\ outer_attempts = <<>>
    /\ pending_exc = "none"
    /\ notfound = 0
    /\ last_call = NoCall
    /\ requested = <<>>
    /\ image_gets = 0

\* the step after a lookup that passed; the image is read again for its
\* name only when the row gave none (lines 552-553)
StepAfter(i, named) == IF Steps[i] = "machine" /\ named THEN i + 2 ELSE i + 1

PcOf(i) == IF Steps[i] = "post" THEN "post" ELSE "fetch"

\* a request of the step goes out (_atmo_get_req, _atmo_post_req)
Issue(trace, step) ==
    IF trace # <<>> /\ trace[Len(trace)] = step THEN trace ELSE Append(trace, step)

\* one attempt of the list function of the step (one GET of the catalog)
\* under its retry_3 wrapper
ListAttempt ==
    /\ rpc = "fetch"
    /\ \E out \in {"ok", "HTTPError", "IncompleteResponse"} :
        LET fn == ListFn(Steps[rstep])
            outs == Append(attempts, out)
            decision == retry_3(Len(attempts), out, RetryClass(fn))
        IN
        /\ attempts' = IF decision = "retry" THEN outs ELSE <<>>
        /\ last_call' = IF decision = "retry" THEN last_call
                        ELSE Ended(fn, outs, IF decision = "return" THEN "return"
                                             ELSE "raise")
        /\ rpc' = CASE decision = "retry" -> "fetch"
                    [] decision = "return" -> "lookup"
                    [] OTHER -> "propagate"
        /\ pending_exc' = IF decision \in {"raise", "propagate"}
                          THEN RaisedError(outs) ELSE "none"
    /\ requested' = Issue(requested, Steps[rstep])
    /\ image_gets' = IF Steps[rstep] = "machine" THEN image_gets + 1
                     ELSE image_gets
    /\ UNCHANGED <<rstep, has_name, outer_attempts, notfound, notRetryVars>>

\* the search of the fetched list: list_contains (lines 116, 154, 207, 537),
\* the loop of get_identity (lines 180-184), and for the machine step the
\* search of the image's versions (line 236)
Lookup ==
    /\ rpc = "lookup"
    /\ \E found \in BOOLEAN, version_found \in BOOLEAN :
        IF ~found
        THEN /\ notfound' = notfound + 1
             /\ pending_exc' = NotFoundError
             /\ rpc' = "propagate"
             /\ rstep' = rstep
        ELSE IF Steps[rstep] = "machine"
        THEN IF version_found
             THEN /\ rpc' = "version_get"
                  /\ UNCHANGED <<notfound, pending_exc, rstep>>
             ELSE /\ notfound' = notfound + 1
                  /\ pending_exc' = NoVersionError
                  /\ rpc' = "propagate"
                  /\ rstep' = rstep
        ELSE /\ rstep' = StepAfter(rstep, has_name)
             /\ rpc' = PcOf(StepAfter(rstep, has_name))
             /\ notfound' = 0
             /\ pending_exc' = "none"
    /\ UNCHANGED <<has_name, attempts, outer_attempts, last_call, requested,
                   image_gets, notRetryVars>>

\* line 549: [0] of a list of machines that is empty
NoMachineError == "IndexError"

\* list_machines_of_image_version, lines 241-246: the GET of the version,
\* inside the body of the decorated function; then line 549 takes the first
\* machine of the list it returned, outside every retry_3 wrapper
VersionGet ==
    /\ rpc = "version_get"
    /\ \E out \in {"ok", "HTTPError", "IncompleteResponse"}, machines \in 0..1 :
        IF out = "ok"
        THEN /\ last_call' = Ended("list_machines_of_image_version",
                                   Append(outer_attempts, "ok"), "return")
             /\ outer_attempts' = <<>>
             /\ notfound' = 0
             /\ IF machines = 0
                THEN /\ rstep' = rstep
                     /\ rpc' = "failed"
                     /\ pending_exc' = NoMachineError
                ELSE /\ rstep' = StepAfter(rstep, has_name)
                     /\ rpc' = PcOf(StepAfter(rstep, has_name))
                     /\ pending_exc' = "none"
        ELSE /\ pending_exc' = out
             /\ rpc' = "propagate"
             /\ UNCHANGED <<last_call, outer_attempts, rstep, notfound>>
    /\ requested' = Issue(requested, Steps[rstep])
    /\ UNCHANGED <<has_name, attempts, image_gets, notRetryVars>>

\* an exception leaves the function that raised it: inside
\* list_machines_of_image_version it reaches that function's retry_3 wrapper
\* (line 223), anywhere else it leaves Instance.launch (lines 562-564)
Propagate ==
    /\ rpc = "propagate"
    /\ IF Steps[rstep] = "machine"
       THEN LET fn == "list_machines_of_image_version"
                outs == Append(outer_attempts, pending_exc)
                decision == retry_3(Len(outer_attempts), pending_exc, RetryClass(fn))
            IN
            /\ outer_attempts' = IF decision = "retry" THEN outs ELSE <<>>
            /\ last_call' = IF decision = "retry" THEN last_call
                            ELSE Ended(fn, outs, "raise")
            /\ rpc' = IF decision = "retry" THEN "fetch" ELSE "failed"
            /\ pending_exc' = IF decision = "retry" THEN "none" ELSE pending_exc
       ELSE /\ rpc' = "failed"
            /\ UNCHANGED <<outer_attempts, last_call, pending_exc>>
    /\ UNCHANGED <<rstep, has_name, attempts, notfound, requested, image_gets,
                   notRetryVars>>

\* lines 557-561: a field of the response that is not there
NoFieldError == "KeyError"

\* one attempt of launch_instance_off_image (lines 275-312, one POST) under
\* retry_3(exception=HTTPError); when it returned, lines 557-561 read the
\* provider, identity, uuid and id of the response, outside the wrapper
Post ==
    /\ rpc = "post"
    /\ \E out \in {"ok", "HTTPError", "IncompleteResponse"}, complete \in BOOLEAN :
        LET fn == "launch_instance_off_image"
            outs == Append(attempts, out)
            decision == retry_3(Len(attempts), out, RetryClass(fn))
        IN
        /\ attempts' = IF decision = "retry" THEN outs ELSE <<>>
        /\ last_call' = IF decision = "retry" THEN last_call
                        ELSE Ended(fn, outs, IF decision = "return" THEN "return"
                                             ELSE "raise")
        /\ rpc' = CASE decision = "retry" -> "post"
                    [] decision = "return" /\ complete -> "launched"
                    [] OTHER -> "failed"
        /\ pending_exc' = CASE decision \in {"raise", "propagate"} -> RaisedError(outs)
                            [] decision = "return" /\ ~complete -> NoFieldError
                            [] OTHER -> "none"
    /\ requested' = Issue(requested, Steps[rstep])
    /\ UNCHANGED <<rstep, has_name, outer_attempts, notfound, image_gets,
                   notRetryVars>>

NextRetry ==
    \/ ListAttempt
    \/ Lookup
    \/ VersionGet
    \/ Propagate
    \/ Post

\* =================== the values Instance.launch resolves and sends for a row
\* longest list a catalog request returns
MaxList == 2

Names == {"alice", "bob"}
SizeNames == {"tiny1", "small1"}
ImageIds == {7, 1552}
VersionNames == {"1.0", "2.0"}
MachineIds == {<<"machine", 1>>, <<"machine", 2>>}

Lists(S) == UNION {[1..n -> S] : n \in 0..MaxList}

\* what the catalog requests can return: entries whose searched field is drawn
\* freely, duplicates included, and whose uuid tells the entries apart
SizeLists ==
    {[i \in 1..Len(ns) |-> [name |-> ns[i], alias |-> <<"size", i>>]] :
        ns \in Lists(SizeNames)}

NamedLists(kind) ==
    {[i \in 1..Len(ns) |-> [name |-> ns[i], uuid |-> <<kind, i>>]] :
        ns \in Lists(Names)}

IdentityLists ==
    {[i \in 1..Len(ns) |-> [user |-> [username |-> ns[i]],
                            uuid |-> <<"identity", i>>]] :
        ns \in Lists(Names)}

ImageLists ==
    {[i \in 1..Len(ids) |-> [id |-> ids[i], name |-> "image-" \o ToString(i)]] :
        ids \in Lists(ImageIds)}

\* the "versions" field of an image entry; it is drawn where it is read
VersionLists ==
    {[j \in 1..Len(vs) |-> [name |-> vs[j], url |-> <<"version", j>>]] :
        vs \in Lists(VersionNames)}

MachineLists ==
    {[i \in 1..Len(ms) |-> [uuid |-> ms[i]]] : ms \in Lists(MachineIds)}

\* "return False", line 851
False == [found |-> FALSE]

\* mutant: the last match instead of the first
list_contains_Last(l, field, value) ==
    LET matches == {i \in 1..Len(l) : l[i][field] = value}
    IN  IF matches = {} THEN False
        ELSE l[CHOOSE i \in matches : \A j \in matches : j <= i]

\* list_contains, lines 839-851
RECURSIVE list_contains(_, _, _)
list_contains(l, field, value) ==
    IF l = <<>> THEN False
    ELSE IF Head(l)[field] = value THEN Head(l)
    ELSE list_contains(Tail(l), field, value)

\* the loop of get_identity, lines 180-184; False stands for the raise of
\* line 184
RECURSIVE get_identity(_, _)
get_identity(id_list, username) ==
    IF id_list = <<>> THEN False
    ELSE IF Head(id_list).user.username = username THEN Head(id_list)
    ELSE get_identity(Tail(id_list), username)

\* mutant: the override of the row is not looked at
AllocSrcName_OwnerOnly(self) == self.owner

\* lines 540-543
AllocSrcName(self) == IF self.alloc_src # "" THEN self.alloc_src ELSE self.owner

\* mutant: the lines 545-548 that are commented out
ProjectName_Override(self) == IF self.project # "" THEN self.project ELSE self.owner

\* line 549
ProjectName(self) == self.owner

\* the data of launch_instance_off_image, lines 296-303
launch_instance_off_image(name, source_uuid, size_alias, alloc_src_uuid, project_uuid, identity_uuid) ==
    [source_alias |-> source_uuid, size_alias |-> size_alias,
     allocation_source_id |-> alloc_src_uuid, name |-> name,
     project |-> project_uuid, identity |-> identity_uuid]

Unbound == [unbound |-> TRUE]
NoData == [sent |-> FALSE]
NoLookup == [fn |-> "none", l |-> <<>>, field |-> "none", result |-> False,
             raised |-> "none"]

\* the search function fn made of the list l for the entry whose field is
\* value: what it returned, and what fn raised on False
Looked(fn, l, field, value, result, exc) ==
    [fn |-> fn, l |-> l, field |-> field, value |-> value, result |-> result,
     raised |-> IF result = False THEN exc ELSE "none"]

\* the locals of launch(), lines 536-551, with image and version, the locals
\* of list_machines_of_image_version while a call of it runs; machines is
\* the list that call returned to line 551
LocalsInit ==
    [size_entry |-> Unbound, alloc_src |-> Unbound, project |-> Unbound,
     identity |-> Unbound, image |-> Unbound, version |-> Unbound,
     machines |-> <<>>, source_uuid |-> <<"none", 0>>]

\* Instance.__init__, lines 499-518
NewInstance(row, owner) ==
    [size |-> row.size, image_id |-> row.image, image_version |-> row.image_version,
     name |-> row.name, project |-> row.project, alloc_src |-> row.alloc_src,
     owner |-> owner]

LaunchIdle ==
    /\ lpc = "idle"
    /\ lrow = [size |-> "", image |-> 0, image_version |-> "", name |-> "",
               project |-> "", alloc_src |-> ""]
    /\ instance = NewInstance(lrow, "")
    /\ llocal = LocalsInit
    /\ lm_attempt = 0
    /\ last_lookup = NoLookup
    /\ create_data = NoData

\* launch() is entered for a row that was parsed and whose Instance was made
\* for the account alice; an optional column that is absent leaves the field
\* "" as an empty cell does
InitLaunch ==
    /\ lpc = "size"
    /\ lrow \in [size : {"tiny1"}, image : {1552}, image_version : {"2.0"},
                 name : {"", "vm"}, project : {"", "bob"},
                 alloc_src : {"", "bob"}]
    /\ instance = NewInstance(lrow, "alice")
    /\ llocal = LocalsInit
    /\ lm_attempt = 0
    /\ last_lookup = NoLookup
    /\ create_data = NoData

\* a search ended: its entry is kept and the next lookup follows, or the
\* ValueError of "if not ..." leaves launch()
Resolve(fn, l, field, value, entry, slot, next_pc) ==
    /\ last_lookup' = Looked(fn, l, field, value, entry, "ValueError")
    /\ IF entry = False
       THEN lpc' = "failed" /\ UNCHANGED llocal
       ELSE lpc' = next_pc /\ llocal' = [llocal EXCEPT ![slot] = entry]

\* lines 536-539
ResolveSize ==
    /\ lpc = "size"
    /\ \E size_list \in SizeLists :
        Resolve("launch", size_list, "name", instance.size,
                list_contains(size_list, "name", instance.size),
                "size_entry", "alloc_src")
    /\ UNCHANGED <<lrow, instance, lm_attempt, create_data, notLaunchVars>>

\* lines 540-543, get_allocation_source
ResolveAllocSrc ==
    /\ lpc = "alloc_src"
    /\ \E source_list \in NamedLists("alloc_src") :
        Resolve("get_allocation_source", source_list, "name", AllocSrcName(instance),
                list_contains(source_list, "name", AllocSrcName(instance)),
                "alloc_src", "project")
    /\ UNCHANGED <<lrow, instance, lm_attempt, create_data, notLaunchVars>>

\* line 549, get_project
ResolveProject ==
    /\ lpc = "project"
    /\ \E project_list \in NamedLists("project") :
        Resolve("get_project", project_list, "name", ProjectName(instance),
                list_contains(project_list, "name", ProjectName(instance)),
                "project", "identity")
    /\ UNCHANGED <<lrow, instance, lm_attempt, create_data, notLaunchVars>>

\* line 550, get_identity
ResolveIdentity ==
    /\ lpc = "identity"
    /\ \E id_list \in IdentityLists :
        Resolve("get_identity", id_list, "username", instance.owner,
                get_identity(id_list, instance.owner), "identity", "image")
    /\ UNCHANGED <<lrow, instance, lm_attempt, create_data, notLaunchVars>>

\* an exception inside list_machines_of_image_version leaves the function,
\* whose locals are gone, and reaches its retry_3 wrapper (line 223), which
\* runs the function again from its first line or raises
MachinesRaise(exc) ==
    /\ llocal' = [llocal EXCEPT !.image = Unbound, !.version = Unbound]
    /\ IF retry_3(lm_attempt, exc, "Exception") = "retry"
       THEN lpc' = "image" /\ lm_attempt' = lm_attempt + 1
       ELSE lpc' = "failed" /\ lm_attempt' = lm_attempt

\* line 235, get_image inside list_machines_of_image_version
FindImage ==
    /\ lpc = "image"
    /\ \E img_list \in ImageLists :
        LET img == list_contains(img_list, "id", instance.image_id) IN
        /\ last_lookup' = Looked("get_image", img_list, "id", instance.image_id, img,
                                 "ValueError")
        /\ IF img = False
           THEN MachinesRaise("ValueError")
           ELSE /\ lpc' = "version"
                /\ llocal' = [llocal EXCEPT !.image = img]
                /\ UNCHANGED lm_attempt
    /\ UNCHANGED <<lrow, instance, create_data, notLaunchVars>>

\* lines 236-238
FindVersion ==
    /\ lpc = "version"
    /\ \E versions \in VersionLists :
       LET version == list_contains(versions, "name", instance.image_version) IN
       /\ last_lookup' = Looked("list_machines_of_image_version", versions, "name",
                                instance.image_version, version,
                                "IncompleteResponse")
       /\ IF version = False
          THEN MachinesRaise("IncompleteResponse")
          ELSE /\ lpc' = "machines"
               /\ llocal' = [llocal EXCEPT !.version = version]
               /\ UNCHANGED lm_attempt
    /\ UNCHANGED <<lrow, instance, create_data, notLaunchVars>>

\* lines 239-246 and the [0]["uuid"] of line 550: the machines of the version
\* are fetched and list_machines_of_image_version returns, its locals gone;
\* the first machine is the source, none at all is an IndexError
GetMachines ==
    /\ lpc = "machines"
    /\ \E machines \in MachineLists :
        IF machines = <<>>
        THEN /\ lpc' = "failed"
             /\ llocal' = [llocal EXCEPT !.image = Unbound, !.version = Unbound,
                                         !.machines = machines]
        ELSE /\ lpc' = IF instance.name = "" THEN "name" ELSE "post"
             /\ llocal' = [llocal EXCEPT !.image = Unbound, !.version = Unbound,
                                         !.machines = machines,
                                         !.source_uuid = machines[1].uuid]
    /\ lm_attempt' = 0
    /\ last_lookup' = NoLookup
    /\ UNCHANGED <<lrow, instance, create_data, notLaunchVars>>

\* lines 552-553: the row gave no name, the image is looked up again
ResolveName ==
    /\ lpc = "name"
    /\ \E img_list \in ImageLists :
        LET img == list_contains(img_list, "id", instance.image_id) IN
        /\ last_lookup' = Looked("get_image", img_list, "id", instance.image_id, img,
                                 "ValueError")
        /\ IF img = False
           THEN lpc' = "failed" /\ UNCHANGED instance
           ELSE lpc' = "post" /\ instance' = [instance EXCEPT !.name = img.name]
    /\ UNCHANGED <<lrow, llocal, lm_attempt, create_data, notLaunchVars>>

\* lines 555-556: the create-instance request goes out
CreateInstance ==
    /\ lpc = "post"
    /\ create_data' = launch_instance_off_image(
                          instance.name, llocal.source_uuid,
                          llocal.size_entry.alias, llocal.alloc_src.uuid,
                          llocal.project.uuid, llocal.identity.uuid)
    /\ \E ok \in BOOLEAN : lpc' = IF ok THEN "launched" ELSE "failed"
    /\ last_lookup' = NoLookup
    /\ UNCHANGED <<lrow, instance, llocal, lm_attempt, notLaunchVars>>

NextLaunch ==
    \/ ResolveSize
    \/ ResolveAllocSrc
    \/ ResolveProject
    \/ ResolveIdentity
    \/ FindImage
    \/ FindVersion
    \/ GetMachines
    \/ ResolveName
    \/ CreateInstance

\* ==================== the pools of main with more rows than workers
\* rows of the CSV file here; a task is its start and its end, what it does
\* in between is the subject of Spec
NPoolRows == 5

PoolRows == 1..NPoolRows

PoolRunning(fut) == {t \in PoolRows : fut[t] = "running"}

PoolIdle ==
    /\ pool_pc = "idle"
    /\ pool_dont_wait = FALSE
    /\ pool_next = 1
    /\ pool_nsubmit = [t \in PoolRows |-> 0]
    /\ pool_queue = <<>>
    /\ pool_launch = [t \in PoolRows |-> "none"]
    /\ pool_wait = [t \in PoolRows |-> "none"]

\* line 654: every row authenticated, the launch pool is made
InitPool ==
    /\ pool_pc = "launch"
    /\ pool_dont_wait \in BOOLEAN
    /\ pool_next = 1
    /\ pool_nsubmit = [t \in PoolRows |-> 0]
    /\ pool_queue = <<>>
    /\ pool_launch = [t \in PoolRows |-> "none"]
    /\ pool_wait = [t \in PoolRows |-> "none"]

\* line 655: executor.submit for the next row of instance_list
PoolSubmitLaunch ==
    /\ pool_pc = "launch"
    /\ pool_next <= NPoolRows
    /\ pool_nsubmit' = [pool_nsubmit EXCEPT ![pool_next] = @ + 1]
    /\ pool_launch' = [pool_launch EXCEPT ![pool_next] = "queued"]
    /\ pool_queue' = Append(pool_queue, pool_next)
    /\ pool_next' = pool_next + 1
    /\ UNCHANGED <<pool_pc, pool_wait, pool_dont_wait, notPoolVars>>

\* a worker takes the head of the work queue
PoolLaunchStart ==
    /\ pool_pc = "launch"
    /\ pool_queue # <<>>
    /\ WorkerFree(Cardinality(PoolRunning(pool_launch)))
    /\ pool_launch' = [pool_launch EXCEPT ![Head(pool_queue)] = "running"]
    /\ pool_queue' = Tail(pool_queue)
    /\ UNCHANGED <<pool_pc, pool_next, pool_nsubmit, pool_wait, pool_dont_wait, notPoolVars>>

\* launch_instance returns the Instance or None
PoolLaunchEnd(t) ==
    /\ pool_launch[t] = "running"
    /\ \E fp \in FailPoints :
        pool_launch' = [pool_launch EXCEPT ![t] = launch_instance(fp)]
    /\ UNCHANGED <<pool_pc, pool_next, pool_nsubmit, pool_queue, pool_wait,
                   pool_dont_wait, notPoolVars>>

\* lines 656-665: every launch future was handed over by as_completed, the
\* with block is left, and unless --dont-wait the polling pool is made
PoolLaunchesOver ==
    /\ pool_pc = "launch"
    /\ pool_next > NPoolRows
    /\ \A t \in PoolRows : pool_launch[t] \in {"instance", "None"}
    /\ pool_pc' = IF SkipWait(pool_dont_wait) THEN "done" ELSE "wait"
    /\ UNCHANGED <<pool_next, pool_nsubmit, pool_queue, pool_launch, pool_wait,
                   pool_dont_wait, notPoolVars>>

\* line 666: executor.submit for the next of launched_instances, whose order
\* is the order as_completed handed the instances over, any order
PoolSubmitWait(t) ==
    /\ pool_pc = "wait"
    /\ pool_launch[t] = "instance"
    /\ pool_wait[t] = "none"
    /\ pool_wait' = [pool_wait EXCEPT ![t] = "queued"]
    /\ pool_queue' = Append(pool_queue, t)
    /\ UNCHANGED <<pool_pc, pool_next, pool_nsubmit, pool_launch, pool_dont_wait, notPoolVars>>

\* a worker takes the head of the work queue; the pool goes on with the
\* futures it holds when main left the with block by an exception
PoolWaitStart ==
    /\ pool_pc \in {"wait", "crashed"}
    /\ pool_queue # <<>>
    /\ WorkerFree(Cardinality(PoolRunning(pool_wait)))
    /\ pool_wait' = [pool_wait EXCEPT ![Head(pool_queue)] = "running"]
    /\ pool_queue' = Tail(pool_queue)
    /\ UNCHANGED <<pool_pc, pool_next, pool_nsubmit, pool_launch, pool_dont_wait, notPoolVars>>

\* wait_active returns, or raises when its first status poll failed (line
\* 588)
PoolWaitEnd(t) ==
    /\ pool_wait[t] = "running"
    /\ \E ret \in {"True", "False", "raise"} :
           pool_wait' = [pool_wait EXCEPT ![t] = ret]
    /\ UNCHANGED <<pool_pc, pool_next, pool_nsubmit, pool_queue, pool_launch,
                   pool_dont_wait, notPoolVars>>

\* line 668: as_completed hands over a future that raised, result() raises
\* and main ends with the exception
PoolRaised ==
    /\ pool_pc = "wait"
    /\ \A t \in PoolRows : pool_launch[t] = "instance" => pool_wait[t] # "none"
    /\ \E t \in PoolRows : pool_wait[t] = "raise"
    /\ pool_pc' = "crashed"
    /\ UNCHANGED <<pool_next, pool_nsubmit, pool_queue, pool_launch, pool_wait,
                   pool_dont_wait, notPoolVars>>

\* lines 667-670: every wait future was handed over
PoolDone ==
    /\ pool_pc = "wait"
    /\ \A t \in PoolRows :
          pool_wait[t] \in (IF pool_launch[t] = "instance" THEN {"True", "False"}
                            ELSE {"none"})
    /\ pool_pc' = "done"
    /\ UNCHANGED <<pool_next, pool_nsubmit, pool_queue, pool_launch, pool_wait,
                   pool_dont_wait, notPoolVars>>

NextPool ==
    \/ PoolSubmitLaunch
    \/ PoolLaunchStart
    \/ \E t \in PoolRows : PoolLaunchEnd(t)
    \/ PoolLaunchesOver
    \/ \E t \in PoolRows : PoolSubmitWait(t)
    \/ PoolWaitStart
    \/ \E t \in PoolRows : PoolWaitEnd(t)
    \/ PoolRaised
    \/ PoolDone

\* ==================================== read_info_from_csv of the launch tool
\* data rows of the CSV file
NCsvRows == 2

\* lines 729-735
Required(token_mode) ==
    <<"image", "image version", "instance size">>
        \o (IF token_mode THEN <<"token">> ELSE <<"username", "password">>)

\* line 730
Optional == <<"instance name", "project name", "allocation source">>

\* header rows: three orders of columns, each whole and with one column left
\* out, and the empty row of a blank first line
FullHeaders ==
    {<<"username", "password", "image", "image version", "instance size",
       "instance name">>,
     <<"token", "image", "image version", "instance size", "allocation source",
       "project name">>,
     <<"instance size", "image version", "image", "token", "password",
       "username">>}

Drop(h, i) ==
    IF i = 0 THEN h ELSE [j \in 1..Len(h) - 1 |-> IF j < i THEN h[j] ELSE h[j + 1]]

Headers == {<<>>} \cup {Drop(h, i) : h \in FullHeaders, i \in 0..6}

\* a cell is kept as the segments "/" splits it into; what the image cell of
\* a row can hold: a URL that ends in an id, in a word, in "/", an empty cell
Urls == {<<"images", "1552">>, <<"images", "-7">>, <<"images", "abc">>,
         <<"images", "1552", "">>, <<"">>}

\* a data row of n cells under the header
Row(header, n, url) ==
    [i \in 1..n |-> IF header[i] = "image" THEN url ELSE <<"x">>]

RowsFor(header) == {Row(header, n, url) : n \in 0..Len(header), url \in Urls}

\* the index a dict filled in the order of the row keeps for a field: that of
\* its last column of that name (indices from 1 here)
LastIndex(fields, f) ==
    CHOOSE i \in 1..Len(fields) :
        fields[i] = f /\ \A j \in 1..Len(fields) : fields[j] = f => j <= i

IndexOf(fields, wanted) ==
    [f \in Range(wanted) \cap Range(fields) |-> LastIndex(fields, f)]

\* find_fields, lines 754-776: the two dicts, or ValueError when a required
\* field has no column
find_fields(fields, required_fields, optional_fields) ==
    LET required_fields_index == IndexOf(fields, required_fields)
        optional_fields_index == IndexOf(fields, optional_fields)
    IN  [raised |-> Cardinality(DOMAIN required_fields_index) # Len(required_fields),
         required |-> required_fields_index,
         optional |-> optional_fields_index]

\* what int() takes among the last segments above
IntLiterals == {"1552", "-7"}

int(str) == IF str = "1552" THEN 1552 ELSE 0 - 7

\* image_id_from_url, lines 778-796: int() of what follows the last "/"
image_id_from_url(url) ==
    LET image_id_str == url[Len(url)]
    IN  IF image_id_str \in IntLiterals
        THEN [exc |-> "none", id |-> int(image_id_str)]
        ELSE [exc |-> "ValueError", id |-> 0]

\* the key parse_row stores a column under, lines 810-824
KeyOf(field) ==
    CASE field = "image version" -> "image_version"
      [] field = "instance size" -> "size"
      [] field = "instance name" -> "name"
      [] field = "allocation source" -> "alloc_src"
      [] field = "project name" -> "project"
      [] OTHER -> field

\* parse_row, lines 798-824: the cells are read in the order of the code, a
\* cell the row does not have is an IndexError
parse_row(token_mode, row, required_index, optional_index) ==
    LET cred == IF token_mode THEN {"token"} ELSE {"username", "password"}
        first == {required_index[f] : f \in cred \cup {"image"}}
        rest == {required_index[f] : f \in {"image version", "instance size"}}
                    \cup {optional_index[f] : f \in DOMAIN optional_index}
        image == image_id_from_url(row[required_index["image"]])
        fields == cred \cup {"image", "image version", "instance size"}
                       \cup DOMAIN optional_index
    IN  IF \E i \in first : i > Len(row) THEN [exc |-> "IndexError"]
        ELSE IF image.exc # "none" THEN [exc |-> image.exc]
        ELSE IF \E i \in rest : i > Len(row) THEN [exc |-> "IndexError"]
        ELSE [exc |-> "none",
              instance |->
                  [k \in {KeyOf(f) : f \in fields} |->
                      IF k = "image" THEN image.id
                      ELSE LET f == CHOOSE g \in fields : KeyOf(g) = k
                           IN  IF f \in DOMAIN optional_index
                               THEN row[optional_index[f]]
                               ELSE row[required_index[f]]]]

\* mutant: a row that does not parse is left out and the next one is read
AfterRowError_SkipRow == "rows"

\* lines 744-748: the exception of parse_row becomes a CSVError, which is
\* printed before exit(1)
AfterRowError == "exit"

\* the exit status of the process: exit(1) and an exception nobody catches
\* give 1
ExitStatus(how) == IF how \in {"exit(1)", "ValueError"} THEN 1 ELSE 0

NoIndex == [required |-> <<>>, optional |-> <<>>]

CsvIdle ==
    /\ cpc = "idle"
    /\ csv_token = FALSE
    /\ all_fields = <<>>
    /\ field_index = NoIndex
    /\ csv_rows = <<>>
    /\ instance_list = <<>>
    /\ csv_exit = "none"
    /\ net_calls = 0

\* parse_args called read_info_from_csv, lines 698-703; --jetstream sets
\* args.token
InitCsv ==
    /\ cpc = "header"
    /\ csv_token \in BOOLEAN
    /\ all_fields = <<>>
    /\ field_index = NoIndex
    /\ csv_rows = <<>>
    /\ instance_list = <<>>
    /\ csv_exit = "none"
    /\ net_calls = 0

\* lines 726-738: the first row is the header; the ValueError of find_fields
\* is not a CSVError and leaves read_info_from_csv, parse_args and main
ReadHeader ==
    /\ cpc = "header"
    /\ \E header \in Headers :
        LET found == find_fields(header, Required(csv_token), Optional) IN
        /\ all_fields' = header
        /\ csv_rows' = <<header>>
        /\ IF found.raised
           THEN /\ cpc' = "exit"
                /\ csv_exit' = "ValueError"
                /\ UNCHANGED field_index
           ELSE /\ cpc' = "rows"
                /\ field_index' = [required |-> found.required,
                                   optional |-> found.optional]
                /\ UNCHANGED csv_exit
    /\ UNCHANGED <<csv_token, instance_list, net_calls, notCsvVars>>

\* lines 740-750: one data row
ReadRow ==
    /\ cpc = "rows"
    /\ Len(csv_rows) <= NCsvRows
    /\ \E row \in RowsFor(all_fields) :
        LET parsed == parse_row(csv_token, row, field_index.required,
                                field_index.optional)
        IN
        /\ csv_rows' = Append(csv_rows, row)
        /\ IF parsed.exc = "none"
           THEN /\ instance_list' = Append(instance_list, parsed.instance)
                /\ UNCHANGED <<cpc, csv_exit>>
           ELSE /\ cpc' = AfterRowError
                /\ csv_exit' = IF AfterRowError = "exit" THEN "exit(1)" ELSE csv_exit
                /\ UNCHANGED instance_list
    /\ UNCHANGED <<csv_token, all_fields, field_index, net_calls, notCsvVars>>

\* line 752: the file is at its end, main goes on with instance_list
EndOfFile ==
    /\ cpc \in {"header", "rows"}
    /\ cpc' = "main"
    /\ UNCHANGED <<csv_token, all_fields, field_index, csv_rows, instance_list,
                   csv_exit, net_calls, notCsvVars>>

\* lines 646-647: the first account_login sends the first request of the
\* run; with no row at all main runs through without any
FirstRequest ==
    /\ cpc = "main"
    /\ IF instance_list = <<>>
       THEN cpc' = "done" /\ csv_exit' = "return" /\ UNCHANGED net_calls
       ELSE cpc' = "network" /\ net_calls' = net_calls + 1 /\ UNCHANGED csv_exit
    /\ UNCHANGED <<csv_token, all_fields, field_index, csv_rows, instance_list,
                   notCsvVars>>

NextCsv ==
    \/ ReadHeader
    \/ ReadRow
    \/ EndOfFile
    \/ FirstRequest

\* =============================================== batch_update_allocation.py
\* rows of the CSV file of the allocation tool
NAllocRows == 2

\* largest allocation unit count
MaxAU == 2

Users == {"u1", "u2"}

\* the rows read_info_from_csv can return: a username and the int() of its
\* count; each row is drawn when the loop of main gets to it
AllocRows == [username : Users, alloc_unit_count : 0..MaxAU]

\* mutant: the test is left out
Skipped_Never(target_alloc_unit_count, current_au, force) == FALSE

\* line 269: "if target_alloc_unit_count < current_au and not force_set"
Skipped(target_alloc_unit_count, current_au, force) ==
    target_alloc_unit_count < current_au /\ ~force

\* the uuid of the allocation source of an account
AllocSrcUuid(username) == <<"as", username>>

\* what a PATCH of an allocation source can answer: the allocation source it
\* names and its count
PatchResponses(count) ==
    [uuid : {AllocSrcUuid(u) : u \in Users}, compute_allowed : {count, count + 1}]

\* update_AU, lines 56-62: the count of the response, -1 when the response
\* does not repeat the count and the uuid of the request
update_AU(alloc_src_uuid, alloc_unit_count, resp) ==
    IF resp.compute_allowed = alloc_unit_count /\ resp.uuid = alloc_src_uuid
    THEN resp.compute_allowed
    ELSE 0 - 1

\* line 20: raise ValueError("Unknown platform")
UnknownPlatform == "ValueError"

\* APIClient.__init__, lines 14-20: the host of a platform
api_base_url(platform) ==
    CASE platform = "cyverse" -> "atmo.cyverse.org"
      [] platform = "jetstream" -> "use.jetstream-cloud.org"
      [] OTHER -> UnknownPlatform

\* line 262: APIClient(admin_token) names no platform, so the parameter has
\* its default, whatever args.jetstream is (args is not handed to
\* update_user_AU, line 288)
ClientPlatform(jetstream_flag) == "cyverse"

NoRow == [username |-> "", target |-> 0, current |-> 0 - 1, request |-> "none",
          new_au_count |-> 0 - 1, after |-> 0]

AllocIdle ==
    /\ apc = "idle"
    /\ force_set = FALSE
    /\ alloc_row = 1
    /\ alloc_srcs = {}
    /\ au_start = [u \in Users |-> 0]
    /\ compute_allowed = [u \in Users |-> 0]
    /\ alloc_last = NoRow
    /\ jetstream = FALSE
    /\ alloc_host = ""

\* parse_arg returned the rows, line 286
InitAlloc ==
    /\ apc = "rows"
    /\ force_set \in BOOLEAN
    /\ alloc_row = 1
    /\ alloc_srcs \in {Users, {"u1"}}
    /\ au_start \in [Users -> 0..MaxAU]
    /\ compute_allowed = au_start
    /\ alloc_last = NoRow
    /\ jetstream \in BOOLEAN
    /\ alloc_host = ""

\* what update_user_AU did for a row; current is -1 when it got no
\* allocation source
Did(row, current_au, request, new_au_count, after) ==
    [username |-> row.username, target |-> row.alloc_unit_count,
     current |-> current_au, request |-> request, new_au_count |-> new_au_count,
     after |-> after]

\* update_user_AU for the row the loop is at, lines 257-283: the client is
\* made, then the GET of the account's allocation sources, the test, the
\* PATCH, all sent to the host of the client (lines 95, 122)
UpdateUserAU ==
    /\ apc = "rows"
    /\ alloc_row <= NAllocRows
    /\ alloc_host' = api_base_url(ClientPlatform(jetstream))
    /\ \E row \in AllocRows :
       LET current_au == compute_allowed[row.username] IN
       \/ \* the GET fails, or the account has no allocation source and
          \* unpacking None raises: lines 264-267
          /\ \E get_ok \in BOOLEAN : get_ok => row.username \notin alloc_srcs
          /\ alloc_last' = Did(row, 0 - 1, "none", 0 - 1, current_au)
          /\ UNCHANGED compute_allowed
       \/ \* lines 269-271
          /\ row.username \in alloc_srcs
          /\ Skipped(row.alloc_unit_count, current_au, force_set)
          /\ alloc_last' = Did(row, current_au, "none", 0 - 1, current_au)
          /\ UNCHANGED compute_allowed
       \/ \* lines 272-282: the PATCH reaches the platform or not, and its
          \* response repeats the count, holds another one, or is an error
          /\ row.username \in alloc_srcs
          /\ ~Skipped(row.alloc_unit_count, current_au, force_set)
          /\ \E applied \in BOOLEAN, error \in BOOLEAN,
                resp \in PatchResponses(row.alloc_unit_count) :
              /\ (~error /\ update_AU(AllocSrcUuid(row.username),
                                      row.alloc_unit_count, resp) >= 0) => applied
              /\ compute_allowed' =
                     IF applied
                     THEN [compute_allowed EXCEPT
                               ![row.username] = row.alloc_unit_count]
                     ELSE compute_allowed
              /\ alloc_last' =
                     Did(row, current_au, "PATCH",
                         IF error THEN 0 - 1
                         ELSE update_AU(AllocSrcUuid(row.username),
                                        row.alloc_unit_count, resp),
                         compute_allowed'[row.username])
    /\ alloc_row' = alloc_row + 1
    /\ UNCHANGED <<apc, force_set, alloc_srcs, au_start, jetstream,
                   notAllocVars>>

\* line 288: the rows are used up
AllocDone ==
    /\ apc = "rows"
    /\ apc' = "done"
    /\ UNCHANGED <<force_set, alloc_row, alloc_srcs, au_start, compute_allowed,
                   alloc_last, jetstream, alloc_host, notAllocVars>>

NextAlloc ==
    \/ UpdateUserAU
    \/ AllocDone

\* ============================================ cleanup_account_resource.py
\* main() of the cleanup tool: the accounts one after another, and for each
\* the links, the volumes, the instances and the projects in turn.  Any
\* exception is printed and raised again (lines 89-91), which ends the run.

\* a bound: the accounts of the csv file
NAccounts == 2

\* what a volume reports about being attached: attach data, attach data
\* still while a requested detach is under way, none, or it is deleted
VolumeStates == {"attached", "free"}

\* line 55, line 445: attach data that is there and not empty
Attached(state) == state \in {"attached", "detaching"}

\* the names a project of the account can have: its username, or another
ProjectNames == {"user", "other"}

\* lines 36-87 without the wait: the loop has no wait for the detaches
PhaseAfter_NoWait(phase) ==
    CASE phase = "token" -> "list_links"
      [] phase = "links" -> "list_volumes"
      [] phase = "detach" -> "list_instances"
      [] phase = "wait" -> "list_instances"
      [] phase = "instances" -> "list_volumes2"
      [] phase = "volumes" -> "list_projects"
      [] phase = "projects" -> "end"

\* lines 36-87: what main does after each of its parts
PhaseAfter(phase) ==
    CASE phase = "token" -> "list_links"
      [] phase = "links" -> "list_volumes"
      [] phase = "detach" -> "wait"
      [] phase = "wait" -> "list_instances"
      [] phase = "instances" -> "list_volumes2"
      [] phase = "volumes" -> "list_projects"
      [] phase = "projects" -> "end"

\* a for loop over a list: its body next, or what follows an empty list
EnterLoop(phase, list) == IF list = <<>> THEN PhaseAfter(phase) ELSE phase

\* a for loop that is left after its first item
LoopOn_FirstOnly(phase, i, list) == PhaseAfter(phase)

\* a for loop after the item at position i: the next item or what follows
LoopOn(phase, i, list) == IF i = Len(list) THEN PhaseAfter(phase) ELSE phase

\* line 52: while deattached, after the detach loop and after each poll
AfterDetach(d) == IF d = <<>> THEN PhaseAfter("wait") ELSE PhaseAfter("detach")

\* the uuids or ids of a listing of n items
Ids(n) == [i \in 1..n |-> i]

\* a request of the account main is at
Req(op, id) == [acct |-> acct, op |-> op, id |-> id]

\* line 56 left out: a volume stays in the list
Remove_Nothing(list, x) == list

\* list.remove of a value the list does not hold raises ValueError
NotInList == <<"ValueError">>

\* line 56: deattached.remove(vol_uuid): the first occurrence goes
Remove(list, x) ==
    IF \E i \in 1..Len(list) : list[i] = x
    THEN LET first == CHOOSE i \in 1..Len(list) :
                          /\ list[i] = x
                          /\ \A j \in 1..i - 1 : list[j] # x
         IN  SubSeq(list, 1, first - 1) \o SubSeq(list, first + 1, Len(list))
    ELSE NotInList

\* lines 76-79 without the break: the last project that has the name
FirstNamed_Last(projects, username) ==
    IF \E i \in 1..Len(projects) : projects[i] = username
    THEN CHOOSE i \in 1..Len(projects) :
             /\ projects[i] = username
             /\ \A j \in i + 1..Len(projects) : projects[j] # username
    ELSE 0

\* lines 76-79: the first project that has the name of the user, 0 if none
FirstNamed(projects, username) ==
    IF \E i \in 1..Len(projects) : projects[i] = username
    THEN CHOOSE i \in 1..Len(projects) :
             /\ projects[i] = username
             /\ \A j \in 1..i - 1 : projects[j] # username
    ELSE 0

\* line 81 with a project created for every account
NoDefault_Always(found) == TRUE

\* line 81: not default_project, no listed project has the name of the user
NoDefault(found) == found = 0

\* the listings of an account, before any of them was asked for
NotListed == [kind \in {"links", "volumes", "instances", "projects"} |-> 0 - 1]

\* the row of the file is an account of its own
NoRerun == [again |-> FALSE, projects |-> <<>>]

\* what a listing can return: anything for an account of its own, and what
\* the cleanup before left when the row names the account of the row before
Returned(fresh, left) == IF rerun.again THEN {left} ELSE fresh

\* the names of the projects the account is left with, in listing order, a
\* created project last
LeftNames ==
    LET kept == SelectSeq(Ids(Len(items)), LAMBDA i : i \in projects_left)
    IN  [j \in 1..Len(kept) |-> items[kept[j]]]
            \o (IF 0 \in projects_left THEN <<"user">> ELSE <<>>)

\* the locals of main before an account's iteration
AccountReset ==
    /\ items = <<>>
    /\ item = 0
    /\ srv_vols = <<>>
    /\ deattached = <<>>
    /\ pass_left = <<>>
    /\ default_project = 0
    /\ projects_left = {}
    /\ listed = NotListed
    /\ klog = <<>>

CleanupIdle ==
    /\ kpc = "idle"
    /\ acct = 0
    /\ finished = {}
    /\ rerun = NoRerun
    /\ raised = 0
    /\ AccountReset

\* line 26-28: the accounts are read, the loop is at the first
InitCleanup ==
    /\ kpc = "token"
    /\ acct = 1
    /\ finished = {}
    /\ rerun = NoRerun
    /\ raised = 0
    /\ AccountReset

\* lines 89-91 with a handler that goes on with the next row
ExceptHandler_NextRow(row) == "end"

\* lines 89-91: the exception is raised again, which ends main
ExceptHandler(row) == "aborted"

\* lines 89-91: a step of the account raised: the row is printed and the
\* handler runs
Abort ==
    /\ raised' = acct
    /\ kpc' = ExceptHandler(acct)
    /\ UNCHANGED <<acct, finished, items, item, deattached, pass_left,
                   default_project, listed, rerun>>

\* a step raised and the platform is as it was
Raise == Abort /\ UNCHANGED <<srv_vols, projects_left>>

\* how a request that changes the platform can end: answered 2xx with a JSON
\* body, answered with an error status (raise_for_status raises), or
\* answered 2xx with a body json.loads cannot parse (JSONDecodeError is
\* raised again)
WriteOutcomes == {"ok", "error", "nojson"}

\* the platform did what the request asked for: it answered 2xx
Done(out) == out # "error"

\* lines 31-34: the token of the csv file, or a login that may fail
Token ==
    /\ kpc = "token"
    /\ \E ok \in BOOLEAN :
           IF ok
           THEN /\ kpc' = PhaseAfter("token")
                /\ UNCHANGED <<acct, finished, items, item, srv_vols,
                               deattached, pass_left, default_project, projects_left,
                               listed, rerun, raised>>
           ELSE Raise
    /\ UNCHANGED <<klog, notCleanupVars>>

\* line 37: list_links_of_user
ListLinks ==
    /\ kpc = "list_links"
    /\ \E ok \in BOOLEAN, n \in Returned(0..MaxList, 0) :
           IF ok
           THEN /\ items' = Ids(n)
                /\ item' = 1
                /\ listed' = [listed EXCEPT !.links = n]
                /\ kpc' = EnterLoop("links", items')
                /\ UNCHANGED <<acct, finished, srv_vols, deattached,
                               pass_left, default_project, projects_left,
                               rerun, raised>>
           ELSE Raise
    /\ UNCHANGED <<klog, notCleanupVars>>

\* the types the id of a link can have in the listing's JSON
IdTypes == {"str", "int"}

\* lines 38-42 with delete_link (691-719): its url is built with
\* "..." + link_uuid (line 707), which raises a TypeError before any request
\* when the id of the link is a JSON number
DeleteLink ==
    /\ kpc = "links"
    /\ \E ok \in BOOLEAN, id_type \in IdTypes :
           IF id_type = "str"
           THEN /\ klog' = Append(klog, Req("delete_link", items[item]))
                /\ IF ok
                   THEN /\ item' = item + 1
                        /\ kpc' = LoopOn("links", item, items)
                        /\ UNCHANGED <<acct, finished, items, srv_vols,
                                       deattached, pass_left, default_project,
                                       projects_left, listed, rerun, raised>>
                   ELSE Raise
           ELSE /\ klog' = klog
                /\ Raise
    /\ UNCHANGED notCleanupVars

\* lines 45-46: list_volume_of_user, the first time
ListVolumes ==
    /\ kpc = "list_volumes"
    /\ \E ok \in BOOLEAN, vols \in Returned(Lists(VolumeStates), <<>>) :
           IF ok
           THEN /\ srv_vols' = vols
                /\ items' = Ids(Len(vols))
                /\ item' = 1
                /\ listed' = [listed EXCEPT !.volumes = Len(vols)]
                /\ deattached' = <<>>
                /\ kpc' = IF vols = <<>> THEN AfterDetach(<<>>) ELSE "detach"
                /\ UNCHANGED <<acct, finished, pass_left, default_project,
                               projects_left, rerun, raised>>
           ELSE Raise
    /\ UNCHANGED <<klog, notCleanupVars>>

\* lines 47-49 with deattach_volume (429-447): the volume is looked up with
\* two GETs (lines 439-440), and detached from its instance with a POST
\* (_deattach_volume, 449-488) if it reports attach data
DetachVolume ==
    /\ kpc = "detach"
    /\ LET vol == items[item]
           attached == Attached(srv_vols[vol])
       IN  \E looked \in BOOLEAN, out \in WriteOutcomes :
               IF ~looked
               THEN /\ klog' = klog
                    /\ Raise
               ELSE /\ klog' = IF attached THEN Append(klog, Req("detach", vol))
                               ELSE klog
                    /\ srv_vols' = IF attached /\ Done(out)
                                   THEN [srv_vols EXCEPT ![vol] = "detaching"]
                                   ELSE srv_vols
                    /\ IF attached /\ out # "ok"
                       THEN Abort /\ UNCHANGED projects_left
                       ELSE /\ deattached' = IF attached
                                             THEN Append(deattached, vol)
                                             ELSE deattached
                            /\ item' = item + 1
                            /\ kpc' = IF item = Len(items)
                                      THEN AfterDetach(deattached')
                                      ELSE "detach"
                            /\ UNCHANGED <<acct, finished, items, pass_left,
                                           default_project, projects_left,
                                           listed, rerun, raised>>
    /\ UNCHANGED notCleanupVars

\* the platform ends a detach that was requested
PlatformDetaches ==
    /\ \E vol \in 1..Len(srv_vols) :
           /\ srv_vols[vol] = "detaching"
           /\ srv_vols' = [srv_vols EXCEPT ![vol] = "free"]
    /\ UNCHANGED <<kpc, acct, finished, items, item, deattached, pass_left,
                   default_project, klog, notCleanupVars, projects_left,
                               listed, rerun, raised>>

\* lines 52-56 with vol_attached_to (415-427): one volume of the pass over
\* list(deattached) is looked up, and removed once it reports no attach data
WaitPollStep(ok) ==
    /\ kpc = "wait"
    /\ LET pass == IF pass_left = <<>> THEN deattached ELSE pass_left
           vol == Head(pass)
       IN  IF ok
           THEN /\ deattached' = IF Attached(srv_vols[vol]) THEN deattached
                                 ELSE Remove(deattached, vol)
                /\ pass_left' = Tail(pass)
                /\ kpc' = AfterDetach(deattached')
                /\ UNCHANGED <<acct, finished, items, item, srv_vols,
                               default_project, projects_left, listed,
                               rerun, raised>>
           ELSE Raise
    /\ UNCHANGED <<klog, notCleanupVars>>

\* a poll of the wait loop, answered or failing
WaitPoll == \E ok \in BOOLEAN : WaitPollStep(ok)

\* line 59: list_instance_of_user
ListInstances ==
    /\ kpc = "list_instances"
    /\ \E ok \in BOOLEAN, n \in Returned(0..MaxList, 0) :
           IF ok
           THEN /\ items' = Ids(n)
                /\ item' = 1
                /\ listed' = [listed EXCEPT !.instances = n]
                /\ kpc' = EnterLoop("instances", items')
                /\ UNCHANGED <<acct, finished, srv_vols, deattached,
                               pass_left, default_project, projects_left,
                               rerun, raised>>
           ELSE Raise
    /\ UNCHANGED <<klog, notCleanupVars>>

\* lines 60-63: delete_instance for one instance
DeleteInstance ==
    /\ kpc = "instances"
    /\ klog' = Append(klog, Req("delete_instance", items[item]))
    /\ \E ok \in BOOLEAN :
           IF ok
           THEN /\ item' = item + 1
                /\ kpc' = LoopOn("instances", item, items)
                /\ UNCHANGED <<acct, finished, items, srv_vols, deattached,
                               pass_left, default_project, projects_left,
                               listed, rerun, raised>>
           ELSE Raise
    /\ UNCHANGED notCleanupVars

\* line 66: list_volume_of_user, the second time: the volumes still there
ListVolumesAgain ==
    /\ kpc = "list_volumes2"
    /\ \E ok \in BOOLEAN :
           IF ok
           THEN /\ items' = Ids(Len(srv_vols))
                /\ item' = 1
                /\ kpc' = EnterLoop("volumes", items')
                /\ UNCHANGED <<acct, finished, srv_vols, deattached,
                               pass_left, default_project, projects_left,
                               listed, rerun, raised>>
           ELSE Raise
    /\ UNCHANGED <<klog, notCleanupVars>>

\* lines 67-70: delete_volume (591-622) for one volume
DeleteVolume ==
    /\ kpc = "volumes"
    /\ klog' = Append(klog, Req("delete_volume", items[item]))
    /\ \E out \in WriteOutcomes :
           /\ srv_vols' = IF Done(out)
                          THEN [srv_vols EXCEPT ![items[item]] = "deleted"]
                          ELSE srv_vols
           /\ IF out = "ok"
              THEN /\ item' = item + 1
                   /\ kpc' = LoopOn("volumes", item, items)
                   /\ UNCHANGED <<acct, finished, items, deattached, pass_left,
                                  default_project, projects_left,
                                  listed, rerun, raised>>
              ELSE Abort /\ UNCHANGED projects_left
    /\ UNCHANGED notCleanupVars

\* lines 73-79: list_project_of_user, account_username, and the search for
\* the project that has the name of the user
ListProjects ==
    /\ kpc = "list_projects"
    /\ \E ok \in BOOLEAN,
          projects \in Returned(Lists(ProjectNames), rerun.projects) :
           IF ok
           THEN /\ items' = projects
                /\ item' = 1
                /\ listed' = [listed EXCEPT !.projects = Len(projects)]
                /\ projects_left' = {i \in 1..Len(projects) : TRUE}
                /\ default_project' = FirstNamed(projects, "user")
                /\ kpc' = IF NoDefault(default_project') THEN "create"
                          ELSE EnterLoop("projects", projects)
                /\ UNCHANGED <<acct, finished, srv_vols, deattached,
                               pass_left, rerun, raised>>
           ELSE Raise
    /\ UNCHANGED <<klog, notCleanupVars>>

\* lines 81-82: create_project (624-660), when no project has the name of
\* the user
CreateProject ==
    /\ kpc = "create"
    /\ klog' = Append(klog, Req("create_project", 0))
    /\ \E out \in WriteOutcomes :
           /\ projects_left' = IF Done(out) THEN projects_left \cup {0}
                               ELSE projects_left
           /\ IF out = "ok"
              THEN /\ kpc' = EnterLoop("projects", items)
                   /\ UNCHANGED <<acct, finished, items, item, srv_vols,
                                  deattached, pass_left, default_project,
                                  listed, rerun, raised>>
              ELSE Abort /\ UNCHANGED srv_vols
    /\ UNCHANGED notCleanupVars

\* lines 85-87: one project of the list: delete_project (559-589) unless it
\* is the default project
DeleteProject ==
    /\ kpc = "projects"
    /\ klog' = IF item # default_project
               THEN Append(klog, Req("delete_project", item))
               ELSE klog
    /\ \E out \in WriteOutcomes :
           /\ projects_left' = IF item # default_project /\ Done(out)
                               THEN projects_left \ {item}
                               ELSE projects_left
           /\ IF out = "ok" \/ item = default_project
              THEN /\ item' = item + 1
                   /\ kpc' = LoopOn("projects", item, items)
                   /\ UNCHANGED <<acct, finished, items, srv_vols, deattached,
                                  pass_left, default_project, listed, rerun,
                                  raised>>
              ELSE Abort /\ UNCHANGED srv_vols
    /\ UNCHANGED notCleanupVars

\* line 28: the iteration of the account is over, the next one begins: the
\* next row is an account of its own, or once more the account of this row
\* with what this cleanup left of it
EndAccount ==
    /\ kpc = "end"
    /\ finished' = finished \cup {acct}
    /\ IF acct < NAccounts
       THEN /\ acct' = acct + 1
            /\ kpc' = "token"
            /\ \E again \in BOOLEAN :
                   rerun' = IF again /\ raised = 0
                            THEN [again |-> TRUE, projects |-> LeftNames]
                            ELSE NoRerun
            /\ items' = <<>>
            /\ item' = 0
            /\ srv_vols' = <<>>
            /\ deattached' = <<>>
            /\ pass_left' = <<>>
            /\ default_project' = 0
            /\ projects_left' = {}
            /\ listed' = NotListed
            /\ klog' = <<>>
            /\ UNCHANGED raised
       ELSE /\ kpc' = "done"
            /\ UNCHANGED <<acct, items, item, srv_vols, deattached,
                           pass_left, default_project, klog, projects_left,
                           listed, rerun, raised>>
    /\ UNCHANGED notCleanupVars

NextCleanup ==
    \/ Token
    \/ ListLinks
    \/ DeleteLink
    \/ ListVolumes
    \/ DetachVolume
    \/ PlatformDetaches
    \/ WaitPoll
    \/ ListInstances
    \/ DeleteInstance
    \/ ListVolumesAgain
    \/ DeleteVolume
    \/ ListProjects
    \/ CreateProject
    \/ DeleteProject
    \/ EndAccount

\* ================================================================ claims
\* ---- Instance.launch (SpecRetry)
\* the order the launch is to resolve its parts in
ResolutionChain(named) ==
    IF named
    THEN <<"size", "alloc_src", "project", "identity", "machine", "post">>
    ELSE <<"size", "alloc_src", "project", "identity", "machine", "name", "post">>

\* C11: the requests of a launch go out in the order size, allocation source,
\* project, identity, source machine, display name, create-instance, each
\* step only after every step before it, so the create-instance request goes
\* out only after all lookups; a launch that failed in a lookup has made no
\* request of a later lookup and no create-instance request.
C11_ResolutionOrder ==
    /\ \E n \in 0..Len(ResolutionChain(has_name)) :
           requested = SubSeq(ResolutionChain(has_name), 1, n)
    /\ rpc \in {"post", "launched"} =>
           \A i \in 1..Len(ResolutionChain(has_name)) - 1 :
               ResolutionChain(has_name)[i] \in Range(requested)
    /\ rpc = "failed" /\ Steps[rstep] # "post" =>
           /\ requested[Len(requested)] = Steps[rstep]
           /\ "post" \notin Range(requested)

C11_Witness ==
    /\ rpc = "failed"
    /\ Steps[rstep] = "identity"
    /\ requested = <<"size", "alloc_src", "project", "identity">>

\* ---- the values of the create-instance request (SpecLaunch)
\* C12: the create-instance request carries the alias of the size named in
\* the row, the uuid of the allocation source named by the row's override
\* when given and by the account's username otherwise, the uuid of the
\* identity of that username, the uuid of the first machine of the version
\* named in the row of the image of the row, and as name the row's instance
\* name when given and the image's name otherwise; with no overrides
\* project, allocation source and identity are those of the username.
C12_RequestAssembly ==
    /\ lpc = "machines" =>
           /\ llocal.image.id = lrow.image
           /\ llocal.version.name = lrow.image_version
    /\ lpc = "post" /\ lrow.name = "" =>
           /\ last_lookup.result.id = lrow.image
           /\ instance.name = last_lookup.result.name
    /\ lpc = "launched" => create_data # NoData
    /\ create_data # NoData =>
           /\ llocal.size_entry.name = lrow.size
           /\ create_data.size_alias = llocal.size_entry.alias
           /\ llocal.alloc_src.name =
                  (IF lrow.alloc_src # "" THEN lrow.alloc_src ELSE instance.owner)
           /\ create_data.allocation_source_id = llocal.alloc_src.uuid
           /\ llocal.identity.user.username = instance.owner
           /\ create_data.identity = llocal.identity.uuid
           /\ create_data.source_alias = llocal.machines[1].uuid
           /\ create_data.name = instance.name
           /\ lrow.name # "" => create_data.name = lrow.name
           /\ create_data.project = llocal.project.uuid
           /\ lrow.alloc_src = "" /\ lrow.project = "" =>
                  /\ llocal.project.name = instance.owner
                  /\ llocal.alloc_src.name = instance.owner

C12_Witness ==
    /\ lpc = "launched"
    /\ lrow.alloc_src = "bob"
    /\ lrow.name = ""
    /\ create_data.name = "image-2"
    /\ create_data.allocation_source_id = <<"alloc_src", 2>>

\* C13: the project of the request is the first project named as the
\* account's username whatever the row's 'project name' says, and the launch
\* fails when the account has no project of that name, a project named as
\* the override existing or not.
C13_ProjectIgnoresOverride ==
    /\ last_lookup.fn = "get_project" =>
           /\ last_lookup.value = instance.owner
           /\ (lpc = "failed") =
                  (\A i \in 1..Len(last_lookup.l) :
                       last_lookup.l[i].name # instance.owner)
    /\ llocal.project # Unbound => llocal.project.name = instance.owner
    /\ create_data # NoData => create_data.project = llocal.project.uuid

C13_Witness ==
    /\ lpc = "failed"
    /\ last_lookup.fn = "get_project"
    /\ lrow.project = "bob"
    /\ \E i \in 1..Len(last_lookup.l) : last_lookup.l[i].name = "bob"

\* the field a search compares
FieldOf(entry, field) ==
    IF field = "username" THEN entry.user.username ELSE entry[field]

MatchesOf(lookup) ==
    {i \in 1..Len(lookup.l) : FieldOf(lookup.l[i], lookup.field) = lookup.value}

\* C14: every search of a fetched list selects the entry of the lowest
\* position among those that match, whether one or several match, and
\* raises nothing then; when none matches it raises a not-found error.
C14_FirstMatch ==
    last_lookup.fn # "none" =>
        IF MatchesOf(last_lookup) = {}
        THEN /\ last_lookup.result = False
             /\ last_lookup.raised \in {"ValueError", "IncompleteResponse"}
        ELSE /\ \E i \in MatchesOf(last_lookup) :
                    /\ \A j \in MatchesOf(last_lookup) : i <= j
                    /\ last_lookup.result = last_lookup.l[i]
             /\ last_lookup.raised = "none"

C14_Witness ==
    /\ last_lookup.fn = "get_project"
    /\ Cardinality(MatchesOf(last_lookup)) > 1
    /\ last_lookup.result.uuid = <<"project", 1>>
    /\ lpc = "identity"

\* C16: no launch task exists before every row of the CSV authenticated, and
\* no polling task exists before every launch task has finished; so for each
\* row its authentication precedes its launch and its launch precedes its
\* first poll.
C16_PhaseOrdering ==
    /\ (\E r \in Rows : ltask[r] # "none") =>
           /\ Range(api_clients) = Rows
           /\ auth_failed = 0
    /\ (\E r \in Rows : wtask[r] # "none") =>
           \A r \in Rows : ltask[r] \in {"instance", "None"}
    /\ \A r \in Rows : wlocal[r] # WaitLocalsInit => ltask[r] = "instance"

C16_Witness ==
    /\ \E r \in Rows : wtask[r] = "running" /\ wlocal[r] # WaitLocalsInit
    /\ \E r \in Rows : ltask[r] = "None"

\* C17: a polling task exists only for a row whose launch gave an instance,
\* one for each such row from the moment main collects the first polling
\* result to the end of the run, and none for a row whose launch failed;
\* with --dont-wait no polling task and no status poll exists at all.
C17_PollingSet ==
    /\ \A r \in Rows : wtask[r] # "none" => ltask[r] = "instance" /\ ~dont_wait
    /\ (~dont_wait /\ (pc = "done" \/ wcollected # {})) =>
           \A r \in Rows : ltask[r] = "instance" => wtask[r] # "none"
    /\ \A i, j \in 1..Len(launched_instances) :
           launched_instances[i] = launched_instances[j] => i = j
    /\ dont_wait =>
           /\ pc # "wait"
           /\ \A r \in Rows : wtask[r] = "none" /\ wlocal[r] = WaitLocalsInit

C17_Witness ==
    /\ pc = "done"
    /\ ~dont_wait
    /\ \E r \in Rows : ltask[r] = "None" /\ wtask[r] = "none"
    /\ \E r \in Rows : ltask[r] = "instance" /\ wtask[r] = "True"

\* ---- the pools (SpecPool)
\* C15: exactly one launch task is submitted for each authenticated row, at
\* most 4 launch tasks run at any moment however many rows there are, and
\* at most 4 polling tasks run at any moment.
C15_BoundedPool ==
    /\ Cardinality(PoolRunning(pool_launch)) <= 4
    /\ Cardinality(PoolRunning(pool_wait)) <= 4
    /\ \A t \in PoolRows :
           /\ pool_nsubmit[t] <= 1
           /\ (pool_launch[t] # "none") = (pool_nsubmit[t] = 1)
           /\ pool_pc \in {"wait", "done"} => pool_nsubmit[t] = 1

C15_Witness ==
    /\ Cardinality(PoolRunning(pool_launch)) = 4
    /\ \E t \in PoolRows : pool_launch[t] = "queued"

\* ---- the CSV file of the launch tool (SpecCsv)
LacksColumn ==
    \E f \in Range(Required(csv_token)) : f \notin Range(csv_rows[1])

RowLacksField(row) ==
    \E f \in Range(Required(csv_token)) :
        \A i \in 1..Len(csv_rows[1]) : csv_rows[1][i] = f => i > Len(row)

RowBadImage(row) ==
    \E i \in 1..Len(row) :
        /\ csv_rows[1][i] = "image"
        /\ row[i][Len(row[i])] \notin {"1552", "-7"}

BadRows ==
    {k \in 2..Len(csv_rows) : RowLacksField(csv_rows[k]) \/ RowBadImage(csv_rows[k])}

\* C18: once the header read lacks a column required for the auth mode, or
\* a data row read lacks a required field or has an image URL whose last
\* segment is no integer, the tool has ended with a non-zero status, has
\* sent no request, and has made no instance of that row.
C18_CsvValidation ==
    (csv_rows # <<>> /\ (LacksColumn \/ BadRows # {})) =>
        /\ cpc = "exit"
        /\ ExitStatus(csv_exit) # 0
        /\ net_calls = 0
        /\ Len(instance_list) = Len(csv_rows) - 1 - Cardinality(BadRows)

C18_Witness ==
    /\ cpc = "exit"
    /\ csv_exit = "exit(1)"
    /\ Len(csv_rows) = 3
    /\ Len(instance_list) = 1
    /\ ~RowLacksField(csv_rows[3])
    /\ RowBadImage(csv_rows[3])

\* ---- the allocation tool (SpecAlloc)
\* C19: without --force-set a row whose target is lower than the current AU
\* of the account sends no write, whatever rows came before it, and no row
\* leaves an account with a lower AU than it found; with --force-set every
\* row of an account that has an allocation source sends the write of its
\* target.
C19_NeverLowered ==
    /\ ~force_set =>
           /\ \A u \in Users : compute_allowed[u] >= au_start[u]
           /\ alloc_last.after >= alloc_last.current
           /\ alloc_last.current >= 0 /\ alloc_last.target < alloc_last.current =>
                  /\ alloc_last.request = "none"
                  /\ alloc_last.after = alloc_last.current
    /\ force_set /\ alloc_last.current >= 0 => alloc_last.request = "PATCH"

\* a second row of an account asks for less than an earlier row gave it
C19_Witness ==
    /\ ~force_set
    /\ alloc_row = 3
    /\ alloc_last.username = "u1"
    /\ alloc_last.current > au_start["u1"]
    /\ alloc_last.target < alloc_last.current
    /\ alloc_last.request = "none"

\* C30: every request of a run of the allocation tool, reads and writes,
\* goes to the host of the platform selected on the command line: the
\* Jetstream host with --jetstream, the CyVerse host otherwise.
C30_PlatformHonoured ==
    alloc_row > 1 =>
        alloc_host = IF jetstream THEN "use.jetstream-cloud.org"
                     ELSE "atmo.cyverse.org"

\* ---- cleanup of the accounts (SpecCleanup)
\* the place of a request in the order the cleanup of an account is to keep
Rank(op) ==
    CASE op = "delete_link" -> 1
      [] op = "detach" -> 2
      [] op = "delete_instance" -> 3
      [] op = "delete_volume" -> 4
      [] op \in {"create_project", "delete_project"} -> 5

\* the requests of a kind that were sent for the account
Sent(op) == {i \in 1..Len(klog) : klog[i].op = op}

\* C20: for each account every link deletion is sent before any detach
\* request, no instance deletion is sent while a volume whose detach was
\* requested still reports attach data, every volume deletion is sent after
\* all instance deletions, the project requests come last, and the requests
\* of an account are sent only once every account before it is done with.
C20_CleanupOrdering ==
    /\ \A i, j \in 1..Len(klog) :
           i < j => Rank(klog[i].op) <= Rank(klog[j].op)
    /\ Sent("delete_instance") # {} =>
           \A i \in Sent("detach") : ~Attached(srv_vols[klog[i].id])
    /\ \A i \in 1..Len(klog) : klog[i].acct = acct
    /\ kpc # "idle" =>
           finished = 1..(IF kpc = "done" THEN acct ELSE acct - 1)

\* the second account had a link, a volume that was attached, an instance
\* and an extra project, and each of them got its request
C20_Witness ==
    /\ acct = 2
    /\ \A op \in {"delete_link", "detach", "delete_instance", "delete_volume",
                  "delete_project"} : Sent(op) # {}

\* the ids of the requests of a kind that were sent for the account
SentIds(op) == {klog[i].id : i \in Sent(op)}

\* the projects of the listing that have the name of the user
Named == {i \in 1..Len(items) : items[i] = "user"}

\* C21: once the projects are listed, the default project is the first
\* listed project that has the name of the user, or a created one when no
\* listed project has that name; it is never deleted; a project is created
\* only when no listed project has the name, and at most once; and when the
\* cleanup of the account ended without error every other listed project,
\* later ones of the same name too, got its delete request and the default
\* project is the one project the account is left with.
C21_ProjectReconciliation ==
    listed.projects >= 0 =>
        /\ IF Named = {} THEN default_project = 0
           ELSE /\ default_project \in Named
                /\ \A i \in Named : default_project <= i
        /\ default_project \notin SentIds("delete_project")
        /\ Sent("create_project") # {} => Named = {}
        /\ Cardinality(Sent("create_project")) <= 1
        /\ default_project # 0 => default_project \in projects_left
        /\ kpc \in {"end", "done"} /\ raised = 0 =>
               /\ SentIds("delete_project") = (1..Len(items)) \ {default_project}
               /\ Named = {} <=> Sent("create_project") # {}
               /\ projects_left = {default_project}
               /\ LeftNames = <<"user">>

\* the account had two projects of the name of the user: the second one
\* was deleted and the cleanup ended
C21_Witness ==
    /\ kpc = "end"
    /\ items = <<"user", "user">>
    /\ SentIds("delete_project") = {2}
    /\ projects_left = {1}

\* C22: for an account whose listings return no link, no volume and no
\* instance, no link, instance or volume deletion and no detach request is
\* sent, and when its cleanup ended a project was created exactly when no
\* listed project had the name of the user, and then once; the cleanup run
\* once more on what a cleanup left sends no create and no delete request.
C22_Idempotence ==
    /\ listed.links <= 0 /\ listed.volumes <= 0 /\ listed.instances <= 0 =>
           /\ \A op \in {"delete_link", "detach", "delete_instance",
                          "delete_volume"} : Sent(op) = {}
           /\ kpc \in {"end", "done"} /\ raised = 0 =>
                  Cardinality(Sent("create_project")) =
                      IF Named = {} THEN 1 ELSE 0
    /\ rerun.again => klog = <<>>

\* the cleanup was run once more on the account of the row before, listed
\* the one project left and ended
C22_Witness ==
    /\ rerun.again
    /\ kpc = "done"
    /\ raised = 0
    /\ listed = [links |-> 0, volumes |-> 0, instances |-> 0, projects |-> 1]
    /\ items = <<"user">>

\* C23: once a step of an account has failed the run has ended with the
\* error at that account, every account before it is done with and stays
\* so, and from then on no request is sent and no step is taken, for that
\* account or for one later in the list.
C23_FailFast ==
    /\ [](raised # 0 =>
             /\ kpc = "aborted"
             /\ acct = raised
             /\ finished = 1..acct - 1)
    /\ [][raised # 0 =>
             UNCHANGED <<kpc, acct, finished, items, item, listed, klog>>]_vars

\* a delete request of the first account failed and there is a later one
C23_Witness ==
    /\ raised = 1
    /\ raised < NAccounts
    /\ kpc = "aborted"
    /\ klog # <<>>

\* the volumes whose detach was requested and that still report attach data
StillAttached == {vol \in SentIds("detach") : Attached(srv_vols[vol])}

\* C24: the wait loop holds only volumes whose detach was requested; while
\* one of these still reports attach data the cleanup is in the detach or
\* the wait loop (or has ended with an error), no instance, volume or
\* project request of the account was sent and the account is not done
\* with, so that a volume that reports attach data forever keeps the loop
\* from ending; and once none of them reports attach data the wait loop
\* ends, unless a request fails.
C24_DetachWait ==
    /\ [](Range(deattached) \cup Range(pass_left) \subseteq SentIds("detach"))
    /\ [](StillAttached # {} =>
             /\ kpc \in {"detach", "wait", "aborted"}
             /\ \A op \in {"delete_instance", "delete_volume",
                            "create_project", "delete_project"} : Sent(op) = {}
             /\ acct \notin finished
             /\ acct = klog[1].acct)
    /\ [](kpc = "wait" /\ StillAttached = {} => <>(kpc # "wait"))

\* of two volumes one was attached: its detach was requested, the loop
\* waited for it alone and has ended
C24_Witness ==
    /\ kpc = "list_instances"
    /\ Len(srv_vols) = 2
    /\ SentIds("detach") = {1}
    /\ srv_vols[1] = "free"
    /\ deattached = <<>>

\* the listing a delete request takes its items from
ListingOf(op) ==
    CASE op = "delete_link" -> "links"
      [] op = "delete_instance" -> "instances"
      [] op = "delete_volume" -> "volumes"

\* C25: when the cleanup of an account has ended without error, every link,
\* every instance and every volume its listings returned got a delete
\* request, each exactly one; and a delete request for a volume is never
\* sent while that volume still reports attach data after a detach this
\* run requested.
C25_Postcondition ==
    /\ [](kpc \in {"end", "done"} /\ raised = 0 =>
             \A op \in {"delete_link", "delete_instance", "delete_volume"} :
                 /\ SentIds(op) = 1..listed[ListingOf(op)]
                 /\ Cardinality(Sent(op)) = listed[ListingOf(op)])
    /\ [][Len(klog') > Len(klog) /\ klog'[Len(klog')].op = "delete_volume" =>
             klog'[Len(klog')].id \notin StillAttached]_vars

\* the cleanup of an account with two links, two instances and two volumes,
\* one of them attached at first, has ended
C25_Witness ==
    /\ kpc = "end"
    /\ raised = 0
    /\ listed.links = 2 /\ listed.instances = 2 /\ listed.volumes = 2
    /\ SentIds("detach") = {2}
    /\ SentIds("delete_volume") = {1, 2}

\* ---- main (Spec)
AuthFailed == auth_failed # 0

\* C1: if authentication fails for any row, no create-instance request is
\* issued for any row of the run, the rows authenticated before it included.
C1_AuthGate == AuthFailed => posted = {}

\* a row failed after another row had authenticated, and the run is over
C1_Witness == AuthFailed /\ api_clients # <<>> /\ pc = "returned"

\* C2 as stated: when authentication fails for some rows they are skipped and
\* every row that authenticated still gets its launch. pc = "returned" is
\* final: no action of main is enabled there.
C2_Original == pc = "returned" => \A r \in Range(api_clients) : ltask[r] # "none"

\* C2 amended: the first row that fails to authenticate ends the run: no
\* later row is authenticated, no launch task is dispatched for any row (the
\* rows authenticated before it included) and nothing is launched; launch
\* tasks exist only when every row authenticated.
C2_Amended ==
    /\ AuthFailed =>
        /\ pc = "returned"
        /\ row_index = auth_failed
        /\ api_clients = [i \in 1..(auth_failed - 1) |-> i]
        /\ \A r \in Rows : ltask[r] = "none"
        /\ launched_instances = <<>>
    /\ (\E r \in Rows : ltask[r] # "none") => api_clients = [i \in 1..NRows |-> i]

\* the second or a later row failed: rows before it hold an authenticated
\* client and are not launched
C2_Witness == auth_failed > 1 /\ Len(api_clients) = auth_failed - 1
              /\ \A r \in Range(api_clients) : ltask[r] = "none"

LaunchPhaseOver == pc \in {"wait", "done", "crashed"}

\* C3: with all rows authenticated, a row whose launch fails is left out of
\* the launched set and nothing else: the run does not stop in phase 2, every
\* row's launch task has run to completion when the phase is over, and the
\* launched set holds exactly the rows whose launch succeeded.
C3_LaunchIsolation ==
    /\ \A r \in lcollected : (r \in Range(launched_instances)) <=> (ltask[r] = "instance")
    /\ Range(launched_instances) \subseteq lcollected
    /\ LaunchPhaseOver =>
        /\ lcollected = Rows
        /\ \A r \in Rows : ltask[r] \in {"instance", "None"}

\* phase 2 is over with a failed row and a launched one
C3_Witness ==
    /\ LaunchPhaseOver
    /\ \E r \in Rows : ltask[r] = "None"
    /\ \E r \in Rows : ltask[r] = "instance" /\ r \in Range(launched_instances)

\* C8: an outcome is collected for every launched instance, and a failure
\* while polling one instance never aborts the run.
C8_PollIsolation ==
    /\ pc # "crashed"
    /\ (pc = "done" /\ ~dont_wait) => wcollected = Range(launched_instances)

\* ---- _wait_active (SpecPoll)
\* C5: whenever a poll observes status "active" with activity "", whatever
\* the elapsed time, the poller returns success.
C5_ActiveIsSuccess == last_poll = <<"active", "">> => ppc = "True"

\* C6: an instance that has not reached active when a poll completes more
\* than 1800 seconds after its launch is returned as failure.
C6_TimeoutIsFailure ==
    (last_poll \notin {NoPoll, <<"active", "">>}
        /\ TimedOut(poll_time, launch_time)) => ppc = "False"

\* C6, the part the code keeps: no poll follows a poll that completed more
\* than 1800 seconds after the launch.
C6_NoPollAfterTimeout ==
    [][(last_poll # NoPoll /\ TimedOut(poll_time, launch_time))
        => UNCHANGED pollVars]_vars

\* C7: a failed poll, the first one included, is a no-op tick: the poller
\* does not raise, keeps status and activity, and returns only on timeout.
C7_FailedPollIsNoOp ==
    [][(ppc = "loop" /\ pollVars' # pollVars /\ last_poll' = PollException)
        => /\ ppc' # "raise"
           /\ ploc'.status = ploc.status /\ ploc'.acivity = ploc.acivity
           /\ (ppc' # "loop" => ppc' = "False" /\ TimedOut(poll_time', launch_time))]_vars

\* C26: a poll that observes status "error" or "deploy_error" makes the
\* poller return failure, no poll follows it, and the poller never returns
\* success when the status it observed last is "error" or "deploy_error".
C26_TerminalFailure ==
    /\ [](last_poll[1] \in {"error", "deploy_error"} => ppc = "False")
    /\ [](ppc = "True" => ploc.status \notin {"error", "deploy_error"})
    /\ [][last_poll[1] \in {"error", "deploy_error"} =>
             UNCHANGED pollVars]_vars

\* a poll that completed before the timeout observed "deploy_error", and
\* the poller returned failure
C26_Witness ==
    /\ last_poll = <<"deploy_error", "">>
    /\ ppc = "False"
    /\ ~TimedOut(poll_time, launch_time)
    /\ poll_time - launch_time >= PollInterval

\* C29: whatever the time its polling task waited for a worker behind the
\* tasks of other instances, an instance that is active with empty activity
\* at its first poll is reported as success.
C29_OutcomeIndependence ==
    [][(ppc = "loop" /\ last_poll = NoPoll /\ last_poll' = <<"active", "">>)
        => ppc' = "True"]_vars

\* ---- request helpers (SpecHdr)
\* C4: under every interleaving each request of a worker that holds a token
\* carries that token in its Authorization header, on GET, POST and DELETE.
C4_OwnToken ==
    \A w \in Workers :
        (sent[w].kind # "none" /\ token[w] # 0) => sent[w].auth = token[w]

\* C27: a request of a client whose own token is empty or unset carries no
\* Authorization header of another account, whatever requests the clients
\* of other rows sent before it.
C27_NoForeignToken ==
    \A w \in Workers :
        (sent[w].kind # "none" /\ token[w] = 0) => sent[w].auth = 0

\* ---- retry_3 and the lookups (SpecRetry)
AllMatchedFailures(outs, n, class) ==
    \A i \in 1..n : outs[i] # "ok" /\ Matches(outs[i], class)

\* C9: one call of a decorated function runs the wrapped function at least
\* once and at most 3 times; it returns at the first attempt that succeeds;
\* it raises the exception of the last attempt when all 3 raised a matching
\* one; an exception of another class leaves it at the attempt that raised
\* it, with no further attempt.
C9_RetryThreeTimes ==
    /\ Len(attempts) < Attempts /\ Len(outer_attempts) < Attempts
    /\ last_call.fn # "none" =>
        LET outs == last_call.outs
            n == Len(outs)
        IN
        /\ n \in 1..3
        /\ AllMatchedFailures(outs, n - 1, last_call.class)
        /\ last_call.result = "return" => outs[n] = "ok"
        /\ last_call.result = "raise" =>
            /\ outs[n] # "ok"
            /\ last_call.exc = outs[n]
            /\ Matches(outs[n], last_call.class) => n = 3
        /\ last_call.result \in {"return", "raise"}

\* a call of launch_instance_off_image raised after three HTTP errors
C9_Witness ==
    /\ last_call.fn = "launch_instance_off_image"
    /\ last_call.outs = <<"HTTPError", "HTTPError", "HTTPError">>
    /\ last_call.result = "raise"
    /\ rpc = "failed"

\* C10: a lookup that finds no matching entry in a catalog that was fetched
\* successfully fails the row at once: nothing is fetched or searched again
\* for that step.
C10_NotFoundNotRetried ==
    notfound > 0 => (notfound = 1 /\ rpc \in {"propagate", "failed"})

\* C28: while the source machine of a row is resolved, the image list
\* endpoint is requested at most 3 times, also where a retried function
\* calls another retried function.
C28_ImageListCap == image_gets <= Attempts

\* ======================================================== specifications
\* the variables of every part but one stay as they are while that part runs
IdleBut(part) ==
    /\ IF part = "main" THEN TRUE ELSE InitMainIdle
    /\ IF part = "poll" THEN TRUE ELSE PollIdle
    /\ IF part = "hdr" THEN TRUE ELSE HdrIdle
    /\ IF part = "retry" THEN TRUE ELSE RetryIdle
    /\ IF part = "launch" THEN TRUE ELSE LaunchIdle
    /\ IF part = "pool" THEN TRUE ELSE PoolIdle
    /\ IF part = "csv" THEN TRUE ELSE CsvIdle
    /\ IF part = "alloc" THEN TRUE ELSE AllocIdle
    /\ IF part = "cleanup" THEN TRUE ELSE CleanupIdle

Init == InitMain /\ IdleBut("main")

Next ==
    \/ AccountLogin
    \/ SubmitLaunch
    \/ \E r \in Rows : LaunchStart(r)
    \/ \E r \in Rows : LaunchPost(r)
    \/ \E r \in Rows : LaunchReturn(r)
    \/ \E r \in Rows : CollectLaunch(r)
    \/ LaunchedSummary
    \/ SubmitWait
    \/ \E r \in Rows : WaitStart(r)
    \/ \E r \in Rows : WaitIter(r)
    \/ \E r \in Rows : WaitReturn(r)
    \/ \E r \in Rows : CollectWait(r)
    \/ MainDone

Spec == Init /\ [][Next]_vars

PollInit == InitPoll /\ IdleBut("poll")

SpecPoll == PollInit /\ [][NextPoll]_vars

HdrInit == InitHdr /\ IdleBut("hdr")

SpecHdr == HdrInit /\ [][NextHdr]_vars

RetryInit == InitRetry /\ IdleBut("retry")

SpecRetry == RetryInit /\ [][NextRetry]_vars

LaunchInit == InitLaunch /\ IdleBut("launch")

SpecLaunch == LaunchInit /\ [][NextLaunch]_vars

PoolInit == InitPool /\ IdleBut("pool")

SpecPool == PoolInit /\ [][NextPool]_vars

CsvInit == InitCsv /\ IdleBut("csv")

SpecCsv == CsvInit /\ [][NextCsv]_vars

AllocInit == InitAlloc /\ IdleBut("alloc")

SpecAlloc == AllocInit /\ [][NextAlloc]_vars

CleanupInit == InitCleanup /\ IdleBut("cleanup")

SpecCleanup == CleanupInit /\ [][NextCleanup]_vars

\* the process keeps running: the wait loop (lines 52-56) goes on polling as
\* long as its requests are answered
SpecCleanupFair == SpecCleanup /\ WF_vars(WaitPollStep(TRUE))
====
